---- MODULE Spec2Model ----
(***************************************************************************)
(* The data-fetch-and-aggregation pipeline of the changelog generator:     *)
(* github_api_call, the disk cache, the retry wrapper, the paginated PR     *)
(* fetch, the concurrent commit aggregator and the entry points' combine   *)
(* step (src/utils/github_data_fetch.py, src/streamlit_app.py,             *)
(* src/api_wrapper.py, src/automation/api_wrapper.py).                     *)
(*                                                                         *)
(* The module holds one specification per component:                       *)
(*   SpecRetry  _fetch_pr_commits_with_retry over fetch_commits_from_pr    *)
(*   SpecAgg    fetch_commits_from_prs_optimized and its worker pool       *)
(*   SpecPR     fetch_prs_merged_between_dates_optimized and the cache     *)
(*   SpecPipe   the three entry points: fetch per branch, combine, submit  *)
(* Variables a specification does not use keep their idle value.           *)
(***************************************************************************)
EXTENDS Integers, Sequences, FiniteSets, TLC

\* ------------------------------------------------------------------ bounds
MaxRetries == 3      \* largest max_retries argument explored
MaxTasks == 2        \* longest PR list handed to the aggregator
MaxCached == 1       \* commit-cache entries an earlier run left behind
MaxWorkers == 2      \* largest max_workers argument explored
MaxFails == 2        \* failing responses upstream gives one PR before it answers
MaxItems == 3        \* closed PRs upstream holds for one branch
PerPage == 2         \* config.github.per_page, scaled down from 100
MaxPages == 2        \* largest max_pages argument explored
MaxCalls == 2        \* calls of the PR fetch in one behaviour
MaxRows == 2         \* longest PR list one branch contributes to a combination
MaxTicks == 2        \* the clock runs for MaxTicks times CACHE_TTL
MaxRecords == 3      \* most commits in one commit set handed to the text extraction
MaxBurst == 3        \* requests one caller sends in a row
MaxRounds == 2       \* calls of the summarizer with one cache key

\* ------------------------------------------------------- program constants
rate_limit_delay == 1   \* GitHubConfig.rate_limit_delay (seconds)
default_max_retries == 3 \* GitHubConfig.max_retries
PRS_MEMO_TTL == 1800
COMMITS_MEMO_TTL == 3600
CACHE_TTL == 3600       \* seconds

\* ------------------------------------------------------------------ inputs
PRIds == {101, 102, 103}
None == [tag |-> "none", kind |-> "none", status |-> 0, val |-> 0]

\* A commit message is a sequence of words. "Merge branch" is the prefix the
\* code tests for; "quote" stands for one of the characters < > " ' ; \\ and
\* "a@b.io" for an e-mail address.
MergePrefix == "Merge branch"

\* message.startswith("Merge branch")
StartsWithMerge(message) == Len(message) > 0 /\ message[1] = MergePrefix

\* sanitize_api_response on a string: the characters < > " ' ; \\ are removed.
SanitizeString(message) == SelectSeq(message, LAMBDA w : w # "quote")

\* sanitize_api_response on the commit list: every string in it is cleaned.
sanitize_api_response(commits) ==
    [i \in 1 .. Len(commits) |->
        [sha |-> commits[i].sha, message |-> SanitizeString(commits[i].message)]]

\* sanitize_commit_message: e-mail addresses, IP addresses, long tokens and
\* URLs are replaced by bracketed placeholders.
sanitize_commit_message(message) ==
    [i \in 1 .. Len(message) |-> IF message[i] = "a@b.io" THEN "[EMAIL_REMOVED]" ELSE message[i]]

\* The commits upstream holds for a PR. 101 has a normal commit and a merge
\* commit whose message is quoted, 102 one normal commit, 103 only a merge
\* commit.
UpstreamCommits(pr) ==
    CASE pr = 101 -> << [sha |-> 1011, message |-> << "fix", "a@b.io" >>],
                        [sha |-> 1012, message |-> << "quote", MergePrefix, "dev" >>] >>
      [] pr = 102 -> << [sha |-> 1021, message |-> << "docs" >>] >>
      [] OTHER    -> << [sha |-> pr * 10 + 1, message |-> << MergePrefix, "main" >>] >>

TitleOf(pr) == pr

\* ------------------------------------------------------------- HTTP layer
\* What the network hands requests.get: a response or a requests exception.
\* remaining = -1 stands for a response without the X-RateLimit-Remaining
\* header.
HttpResponses ==
    [net : {"ok"}, status : {200, 401, 403, 404, 500}, remaining : {-1, 0, 5, 50},
     body : {"list", "bad"}]
NetFailures ==
    [net : {"timeout", "connection", "other"}, status : {0}, remaining : {-1},
     body : {"bad"}]
Responses == HttpResponses \cup NetFailures

\* Outcomes share one shape: tag ("raise" | "response" | "value" | "none"), the
\* error kind or body kind, the status code (0: None) and the value carried.
ApiError(kind, status) == [tag |-> "raise", kind |-> kind, status |-> status, val |-> 0]
ApiOk(resp) == [tag |-> "response", kind |-> resp.body, status |-> resp.status, val |-> 0]

\* response.headers.get('X-RateLimit-Remaining', '0')
RemainingHeader(resp) == IF resp.remaining = -1 THEN 0 ELSE resp.remaining

\* github_api_call: the outcome for one answer of the network.
\* (github_api_call_server_errors_only: only 404, 401 and 5xx raise.)
github_api_call_server_errors_only(resp) ==
    CASE resp.net = "timeout"    -> ApiError("timeout", 0)
      [] resp.net = "connection" -> ApiError("connection", 0)
      [] resp.net = "other"      -> ApiError("request_failed", 0)
      [] resp.status = 403 /\ RemainingHeader(resp) = 0 -> ApiError("rate_limit", 403)
      [] resp.status = 404 -> ApiError("not_found", 404)
      [] resp.status = 401 -> ApiError("unauthorized", 401)
      [] resp.status >= 500 -> ApiError("api_error", resp.status)
      [] OTHER -> ApiOk(resp)

github_api_call_rate_blind(resp) ==
    CASE resp.net = "timeout"    -> ApiError("timeout", 0)
      [] resp.net = "connection" -> ApiError("connection", 0)
      [] resp.net = "other"      -> ApiError("request_failed", 0)
      [] resp.status = 404 -> ApiError("not_found", 404)
      [] resp.status = 401 -> ApiError("unauthorized", 401)
      [] resp.status >= 400 -> ApiError("api_error", resp.status)
      [] OTHER -> ApiOk(resp)

github_api_call(resp) ==
    CASE resp.net = "timeout"    -> ApiError("timeout", 0)
      [] resp.net = "connection" -> ApiError("connection", 0)
      [] resp.net = "other"      -> ApiError("request_failed", 0)
      [] resp.status = 403 /\ RemainingHeader(resp) = 0 -> ApiError("rate_limit", 403)
      [] resp.status = 404 -> ApiError("not_found", 404)
      [] resp.status = 401 -> ApiError("unauthorized", 401)
      [] resp.status >= 400 -> ApiError("api_error", resp.status)
      [] OTHER -> ApiOk(resp)

\* st.warning("GitHub API rate limit low") is shown when the call got past
\* the rate-limit check with fewer than 10 requests remaining.
LowQuotaWarning(resp) ==
    /\ resp.net = "ok"
    /\ ~(resp.status = 403 /\ RemainingHeader(resp) = 0)
    /\ RemainingHeader(resp) < 10

QuotaExhausted(resp) == resp.net = "ok" /\ resp.status = 403 /\ RemainingHeader(resp) = 0

\* response.json() followed by sanitize_api_response: the commit list, or a
\* processing error when the body does not decode.
Value(v) == [tag |-> "value", kind |-> "ok", status |-> 200, val |-> v]
Swallowed == None

\* fetch_commits_from_pr: one request (use_rate_limit = True), GitHubAPIError
\* re-raised, any other exception swallowed into None.
fetch_commits_from_pr(pr, resp) ==
    LET r == github_api_call(resp) IN
    IF r.tag = "raise" THEN r
    ELSE IF r.kind = "bad" THEN Swallowed
    ELSE Value(pr)

\* ---------------------------------------------------------------- state
VARIABLES
    sleeps,        \* every time.sleep so far: <<[why, secs]>>
    now,           \* time.time(), in seconds
    cache,         \* the files of CACHE_DIR: cache key -> [data, mtime]
    api_requests,  \* requests.get calls issued so far
    quota_hit,     \* some response so far was 403 with remaining quota 0
    up_fails,      \* PR number -> failing answers upstream gave its commit fetch
    ag_pc,         \* fetch_commits_from_prs_optimized: "idle" | "start" | "pool" | "returned" | "raised"
    ag_prs,        \* its prs argument: a sequence of rows [number, title, branch]
    ag_workers,    \* its max_workers argument
    ag_st,         \* per submitted task: "queued" | "flight" | "done" | "collected"
    ag_out,        \* per submitted task: the outcome of its future
    all_commits,   \* the records collected so far
    completed,     \* the progress counter
    ag_warned,     \* st.warning / st.error calls made during the aggregation
    ag_logged,     \* logger.warning calls of the collection loop
    up_prs,        \* upstream: branch -> its closed PRs, most recently updated first
    up_meta,       \* upstream: the repository metadata of the first PR of the list
    pf_pc,         \* fetch_prs_merged_between_dates_optimized: "idle" | "page" | "returned" | "raised"
    pf_branch,     \* its main_branch
    pf_start,      \* its start_date
    pf_end,        \* its end_date
    pf_max_pages,  \* its max_pages
    page,          \* the loop variable page
    all_prs,       \* the PRs kept so far
    pf_resps,      \* the answers to the page requests of this call
    pf_pages,      \* the page numbers requested by this call
    pf_result,     \* the outcome the caller got
    pf_value,      \* the (PR set, description) returned
    pf_calls,      \* calls made so far
    rt_pc,         \* _fetch_pr_commits_with_retry: "idle" | "loop" | "returned" | "raised"
    rt_pr,         \* its pr_number
    rt_max,        \* its max_retries
    rt_attempt,    \* the loop variable attempt
    rt_hist,       \* outcomes of fetch_commits_from_pr, one per invocation
    rt_result,     \* what the caller got: a value, None, or the raised error
    pl_pc,         \* an entry point's generate step: "idle" | "fetch" | "wait" | "agg" | "done"
    pl_entry,      \* "streamlit" | "fastapi" | "flask"
    pl_branches,   \* the branches asked for, in order
    pl_start,      \* the start date asked for
    pl_end,        \* the end date asked for
    pl_i,          \* index of the branch being fetched
    pl_all_prs,    \* the rows of the branches fetched so far, concatenated
    pl_outcome,    \* how the request ended
    cb_pc,         \* combining per-branch PR sets: "idle" | "input" | "combined"
    cb_entry,      \* the entry point that combines
    cb_in,         \* the non-empty per-branch results, in request order: [branch, prs]
    cb_prs,        \* the combined rows
    ch_dir,        \* CACHE_DIR: "ok" | "no_access" | "uncreatable"
    ch_health,     \* per cache file that is not sound: "corrupt" | "unreadable"
    ch_last,       \* the last call of get_cached_data / cache_data and its outcome
    ch_written,    \* per key: the value and time of the last write that reached the file
    mm_memo,       \* st.cache_data: per memoized function the stored result and its time
    mm_served,     \* the last result a memoized function handed to its caller
    hp_pc,         \* one call of github_api_call: "idle" | "ready" | "done"
    hp_token,      \* whether get_secure_github_token() yields a token
    hp_rate,       \* its use_rate_limit argument
    hp_resp,       \* what the network answers to its request
    hp_out,        \* what the call returned or raised
    hp_log,        \* the requests sent so far: use_rate_limit and the instant of sending
    tx_pc,         \* building the changelog input: "idle" | "raw" | "frame" | "done"
    tx_raw,        \* commits as delivered, in collection order: [row, commit]
    tx_upstream,   \* whether the frame was built by _transform_commits_to_records
    tx_frame,      \* the commit DataFrame handed to extract_messages_from_commits
    tx_text,       \* the text it returned, as a sequence of lines
    sm_pc,         \* one call of gpt_inference_changelog: "idle" | "ready" | "done"
    sm_key,        \* whether get_secure_openai_key() yields a key
    sm_cached,     \* the fresh entry of the OpenAI cache for this request, or "none"
    sm_many,       \* whether the commits text names more than 20 PRs
    sm_answers,    \* what the API answers to the first and to the second request
    sm_handler,    \* whether the fallback handler runs through: "ok" | "fails"
    sm_dir,        \* the OpenAI cache file: "ok" | "unwritable"
    sm_calls,      \* API requests made by the call
    sm_written,    \* what the call wrote to the OpenAI cache, or "none"
    sm_out,        \* what the call returned or raised
    sm_log         \* the calls made for this cache key, oldest first

envVars == << sleeps, now, cache, api_requests, quota_hit, up_fails >>
retryVars == << rt_pc, rt_pr, rt_max, rt_attempt, rt_hist, rt_result >>
aggVars == << ag_pc, ag_prs, ag_workers, ag_st, ag_out, all_commits, completed,
             ag_warned, ag_logged >>
prVars == << up_prs, up_meta, pf_pc, pf_branch, pf_start, pf_end, pf_max_pages, page, all_prs,
            pf_resps, pf_pages, pf_result, pf_value, pf_calls >>
pipeVars == << pl_pc, pl_entry, pl_branches, pl_start, pl_end, pl_i, pl_all_prs, pl_outcome >>
combVars == << cb_pc, cb_entry, cb_in, cb_prs >>
storeVars == << ch_dir, ch_health, ch_last, ch_written >>
memoVars == << mm_memo, mm_served >>
httpVars == << hp_pc, hp_token, hp_rate, hp_resp, hp_out, hp_log >>
textVars == << tx_pc, tx_raw, tx_upstream, tx_frame, tx_text >>
sumVars == << sm_pc, sm_key, sm_cached, sm_many, sm_answers, sm_handler, sm_dir,
             sm_calls, sm_written, sm_out, sm_log >>
docVars == << textVars, sumVars >>
auxVars == << combVars, storeVars, memoVars, httpVars, docVars >>
vars == << envVars, retryVars, aggVars, prVars, pipeVars, auxVars >>

\* The environment before anything ran: no sleep, no request, an empty cache
\* directory.
EnvInit ==
    /\ sleeps = << >>
    /\ now = CACHE_TTL
    /\ cache = << >>
    /\ api_requests = 0
    /\ quota_hit = FALSE
    /\ up_fails = [p \in PRIds |-> 0]

Pow2(n) == IF n = 0 THEN 1 ELSE IF n = 1 THEN 2 ELSE IF n = 2 THEN 4 ELSE IF n = 3 THEN 8 ELSE 16

Slept(why, secs) == Append(sleeps, [why |-> why, secs |-> secs])


\* -------------------------------------------------------------- disk cache
\* cache_key = f"commits_{pr_number}_{owner}_{repo}" (owner and repo are fixed
\* for one run).
CommitCacheKey(pr) == << "commits", pr >>

\* get_cached_data: the entry's data while younger than CACHE_TTL, else None;
\* an expired file is removed.
\* (CacheFresh_inclusive: an entry exactly CACHE_TTL old still counts.)
CacheFresh_inclusive(key) == key \in DOMAIN cache /\ now - cache[key].mtime <= CACHE_TTL

CacheFresh(key) == key \in DOMAIN cache /\ now - cache[key].mtime < CACHE_TTL

CacheAfterGet(key) ==
    IF key \in DOMAIN cache /\ ~CacheFresh(key)
    THEN [k \in DOMAIN cache \ {key} |-> cache[k]]
    ELSE cache

\* cache_data: the file is (over)written and gets the current mtime.
CacheAfterPut(c, key, data) ==
    [k \in DOMAIN c \cup {key} |-> IF k = key THEN [data |-> data, mtime |-> now] ELSE c[k]]

\* ------------------------------------------------- concurrent aggregator
Row(pr) == [number |-> pr, title |-> TitleOf(pr), branch |-> "main"]

RECURSIVE SeqsUpTo(_, _)
SeqsUpTo(S, n) ==
    IF n = 0 THEN { << >> }
    ELSE LET shorter == SeqsUpTo(S, n - 1)
         IN shorter \cup { Append(q, x) : q \in { r \in shorter : Len(r) = n - 1 }, x \in S }

AggIdle ==
    /\ ag_pc = "idle" /\ ag_prs = << >> /\ ag_workers = 0
    /\ ag_st = << >> /\ ag_out = << >> /\ all_commits = << >> /\ completed = 0
    /\ ag_warned = 0 /\ ag_logged = 0

\* Entries a previous run may have left in the cache: the commit list of a PR,
\* written recently (fresh) or more than CACHE_TTL ago (expired).
CachedCommits(freshPrs, stalePrs) ==
    [k \in { CommitCacheKey(p) : p \in freshPrs \cup stalePrs } |->
        [data |-> k[2], mtime |-> IF k[2] \in freshPrs THEN now - 1 ELSE 0]]

AggInit ==
    /\ sleeps = << >> /\ now = CACHE_TTL /\ api_requests = 0 /\ quota_hit = FALSE
    /\ up_fails = [p \in PRIds |-> 0]
    /\ \E fresh \in SUBSET PRIds : \E stale \in SUBSET (PRIds \ fresh) :
          /\ Cardinality(fresh) + Cardinality(stale) <= MaxCached
          /\ cache = CachedCommits(fresh, stale)
    /\ ag_pc = "start"
    /\ \E nums \in SeqsUpTo(PRIds, MaxTasks) : ag_prs = [i \in 1 .. Len(nums) |-> Row(nums[i])]
    /\ ag_workers \in 1 .. MaxWorkers
    /\ ag_st = << >> /\ ag_out = << >> /\ all_commits = << >> /\ completed = 0
    /\ ag_warned = 0 /\ ag_logged = 0

pr_numbers == [i \in 1 .. Len(ag_prs) |-> ag_prs[i].number]

\* "if prs.empty: return pd.DataFrame()"
AggReturnEmpty ==
    /\ ag_pc = "start"
    /\ Len(ag_prs) = 0
    /\ ag_pc' = "returned"
    /\ UNCHANGED << ag_prs, ag_workers, ag_st, ag_out, all_commits, completed, ag_warned, ag_logged,
                    envVars, retryVars, prVars, pipeVars, auxVars >>

\* The dict comprehension of executor.submit calls: one task per element of
\* pr_numbers.
AggSubmit ==
    /\ ag_pc = "start"
    /\ Len(ag_prs) > 0
    /\ ag_pc' = "pool"
    /\ ag_st' = [i \in 1 .. Len(ag_prs) |-> "queued"]
    /\ ag_out' = [i \in 1 .. Len(ag_prs) |-> None]
    /\ UNCHANGED << ag_prs, ag_workers, all_commits, completed, ag_warned, ag_logged, envVars, retryVars, prVars, pipeVars, auxVars >>

InFlight == { i \in 1 .. Len(ag_st) : ag_st[i] = "flight" }

\* ThreadPoolExecutor: at most max_workers threads; a free thread takes the
\* oldest queued work item. (WorkerFree_unbounded: a pool that starts a thread
\* per work item.)
WorkerFree_unbounded == TRUE

WorkerFree == Cardinality(InFlight) < ag_workers

NextQueued(i) ==
    /\ i \in 1 .. Len(ag_st)
    /\ ag_st[i] = "queued"
    /\ \A j \in 1 .. i - 1 : ag_st[j] # "queued"

\* _fetch_single_pr_commits_optimized up to its request: a fresh cache entry
\* is returned at once; otherwise the request for pulls/<n>/commits goes out
\* (use_rate_limit=False: no sleep).
TaskStart(i) ==
    /\ ag_pc = "pool"
    /\ NextQueued(i)
    /\ WorkerFree
    /\ LET key == CommitCacheKey(pr_numbers[i]) IN
       IF CacheFresh(key)
       THEN /\ ag_st' = [ag_st EXCEPT ![i] = "done"]
            /\ ag_out' = [ag_out EXCEPT ![i] = Value(cache[key].data)]
            /\ UNCHANGED << cache, api_requests >>
       ELSE /\ ag_st' = [ag_st EXCEPT ![i] = "flight"]
            /\ cache' = CacheAfterGet(key)
            /\ api_requests' = api_requests + 1
            /\ UNCHANGED ag_out
    /\ UNCHANGED << ag_pc, ag_prs, ag_workers, all_commits, completed, ag_warned, ag_logged,
                    sleeps, now, quota_hit, up_fails, retryVars, prVars, pipeVars, auxVars >>

\* The rest of _fetch_single_pr_commits_optimized: GitHubAPIError re-raised,
\* an undecodable body swallowed into None, a commit list cached and returned.
fetch_single_pr_commits_optimized(pr, resp) ==
    LET r == github_api_call(resp) IN
    IF r.tag = "raise" THEN r
    ELSE IF r.kind = "bad" THEN Swallowed
    ELSE Value(pr)

\* "cache_data(cache_key, sanitized_commits)" stands in the try block after
\* the request and the decoding: an outcome other than a commit list has left
\* the block before it.
\* (CommitWrite_any_outcome: the write moved to a finally clause.)
CommitWrite_any_outcome(c, pr, out) == CacheAfterPut(c, CommitCacheKey(pr), out.val)

CommitWrite(c, pr, out) ==
    IF out.tag = "value" THEN CacheAfterPut(c, CommitCacheKey(pr), out.val) ELSE c

\* The answers upstream gives a commit request: a success, or one of the
\* failures while the PR has failed fewer than MaxFails times.
AggResponses ==
    { r \in Responses :
        \/ r.net = "timeout"
        \/ r.net = "ok" /\ r.status = 200 /\ r.remaining = 50
        \/ r.net = "ok" /\ r.body = "bad" /\ r.status \in {401, 403} /\ r.remaining = 0 }

Succeeds(resp) == github_api_call(resp).tag = "response" /\ resp.body = "list"

\* What one request shows the user: github_api_call calls st.error when the
\* quota is exhausted and st.warning when it is low; nothing else on the way
\* from the request to the collection loop calls st.warning or st.error.
Shown(resp) == IF QuotaExhausted(resp) \/ LowQuotaWarning(resp) THEN 1 ELSE 0

TaskResponse(i, resp) ==
    /\ ag_pc = "pool"
    /\ i \in InFlight
    /\ LET pr == pr_numbers[i]
           out == fetch_single_pr_commits_optimized(pr, resp)
       IN /\ Succeeds(resp) \/ up_fails[pr] < MaxFails
          /\ up_fails' = IF Succeeds(resp) THEN up_fails
                         ELSE [up_fails EXCEPT ![pr] = @ + 1]
          /\ quota_hit' = (quota_hit \/ QuotaExhausted(resp))
          /\ ag_st' = [ag_st EXCEPT ![i] = "done"]
          /\ ag_out' = [ag_out EXCEPT ![i] = out]
          /\ cache' = CommitWrite(cache, pr, out)
          /\ ag_warned' = ag_warned + Shown(resp)
    /\ UNCHANGED << ag_pc, ag_prs, ag_workers, all_commits, completed, ag_logged,
                    sleeps, now, api_requests, retryVars, prVars, pipeVars, auxVars >>

\* prs[prs['number'] == pr_number].iloc[0]
\* (FirstRow_unfiltered: prs.iloc[0], the first row whatever its number.)
FirstRow_unfiltered(pr) == ag_prs[1]

FirstRow(pr) ==
    ag_prs[CHOOSE i \in 1 .. Len(ag_prs) :
              /\ ag_prs[i].number = pr
              /\ \A j \in 1 .. i - 1 : ag_prs[j].number # pr]

\* _transform_commits_to_records: one record per commit whose message does
\* not start with "Merge branch".
RECURSIVE transform_commits_to_records(_, _)
transform_commits_to_records(commits, pr_row) ==
    IF commits = << >> THEN << >>
    ELSE LET c == Head(commits)
             rest == transform_commits_to_records(Tail(commits), pr_row)
         IN IF StartsWithMerge(c.message) THEN rest
            ELSE << [pr |-> pr_row.number, title |-> pr_row.title, sha |-> c.sha,
                     message |-> sanitize_commit_message(c.message)] >> \o rest

\* "except Exception" around future.result(): every exception of a task is
\* caught and logged.
CaughtInLoop_only_none(out) == out.tag # "raise"

CaughtInLoop(out) == TRUE

\* The handler of the collection loop: logger.warning("Failed to fetch
\* commits for PR ...") for a task that raised, and no st.warning. A task
\* that returned None raised nothing and reaches no handler.
LoopWarnings(out) == IF out.tag = "raise" THEN 1 ELSE 0

\* One iteration of "for future in as_completed(future_to_pr)".
TaskCollect(i) ==
    /\ ag_pc = "pool"
    /\ i \in 1 .. Len(ag_st)
    /\ ag_st[i] = "done"
    /\ ag_st' = [ag_st EXCEPT ![i] = "collected"]
    /\ completed' = completed + 1
    /\ LET out == ag_out[i]
           commits == IF out.tag = "value" THEN sanitize_api_response(UpstreamCommits(out.val))
                      ELSE << >>
       IN /\ all_commits' =
                IF out.tag = "value" /\ commits # << >>
                THEN all_commits \o transform_commits_to_records(commits, FirstRow(pr_numbers[i]))
                ELSE all_commits
          /\ ag_pc' = IF CaughtInLoop(out) THEN "pool" ELSE "raised"
          /\ ag_logged' = ag_logged + LoopWarnings(out)
    /\ UNCHANGED << ag_prs, ag_workers, ag_out, ag_warned, envVars, retryVars, prVars, pipeVars, auxVars >>

\* The loop is over and the with block has joined the pool:
\* "return pd.DataFrame(all_commits)".
\* (LoopDone_first_completed: a loop left after the first outcome.)
LoopDone_first_completed == \E i \in 1 .. Len(ag_st) : ag_st[i] = "collected"

\* as_completed is exhausted when it has yielded every future of the dict.
LoopDone == \A i \in 1 .. Len(ag_st) : ag_st[i] = "collected"

AggReturn ==
    /\ ag_pc = "pool"
    /\ LoopDone
    /\ ag_pc' = "returned"
    /\ UNCHANGED << ag_prs, ag_workers, ag_st, ag_out, all_commits, completed, ag_warned, ag_logged,
                    envVars, retryVars, prVars, pipeVars, auxVars >>

AggNext ==
    \/ AggReturnEmpty
    \/ AggSubmit
    \/ \E i \in 1 .. Len(ag_st) : TaskStart(i)
    \/ \E i \in 1 .. Len(ag_st) : \E resp \in AggResponses : TaskResponse(i, resp)
    \/ \E i \in 1 .. Len(ag_st) : TaskCollect(i)
    \/ AggReturn


\* ------------------------------------------------------- paginated PR fetch
\* The dates a caller asks for, and what merged_at of an upstream PR may be:
\* 0 stands for a PR that was never merged, 1 lies before every start date
\* asked for and 4 after every end date.
CallDates == {2, 3}
\* merged_at of an upstream PR: 0 for null, otherwise a timestamp counted in
\* half days, so that days 1 and 3 are met in their afternoon and days 2 and
\* 4 in their morning.
MergedVals == {0, 3, 4, 7, 8}

\* pd.to_datetime(pr['merged_at']).date()
DateOf(merged_at) == merged_at \div 2
Branch == "main"

NoValue == [prs |-> << >>, desc |-> ""]
ValidationError == [tag |-> "raise", kind |-> "validation", status |-> 0, val |-> 0]
ProcessingError == ApiError("fetch_failed", 0)
Returned == [tag |-> "value", kind |-> "ok", status |-> 200, val |-> 0]

PRIdle ==
    /\ up_prs = << >> /\ up_meta = "full" /\ pf_pc = "idle" /\ pf_branch = Branch
    /\ pf_start = 0 /\ pf_end = 0 /\ pf_max_pages = 0
    /\ page = 0 /\ all_prs = << >> /\ pf_resps = << >> /\ pf_pages = << >>
    /\ pf_result = None /\ pf_value = NoValue /\ pf_calls = 0

\* The shapes of prs[0] with respect to head.repo.description: all present,
\* a key missing, or a key present with the value null (GitHub sends
\* "repo": null for a PR whose fork was deleted).
MetaShapes ==
    {"full", "no_head", "head_null", "no_repo", "repo_null", "no_description",
     "description_null"}

PRInit ==
    /\ \E ms \in SeqsUpTo(MergedVals, MaxItems) :
          up_prs = [b \in {Branch} |->
                      [i \in 1 .. Len(ms) |-> [number |-> 200 + i, merged_at |-> ms[i]]]]
    /\ up_meta = "full"
    /\ pf_pc = "idle" /\ pf_branch = Branch
    /\ pf_start = 0 /\ pf_end = 0 /\ pf_max_pages = 0
    /\ page = 0 /\ all_prs = << >> /\ pf_resps = << >> /\ pf_pages = << >>
    /\ pf_result = None /\ pf_value = NoValue /\ pf_calls = 0

\* The same call over PRs merged on the two call dates, with every shape of
\* the metadata.
DescInit ==
    /\ \E ms \in SeqsUpTo({4, 7}, MaxItems) :
          up_prs = [b \in {Branch} |->
                      [i \in 1 .. Len(ms) |-> [number |-> 200 + i, merged_at |-> ms[i]]]]
    /\ up_meta \in MetaShapes
    /\ pf_pc = "idle" /\ pf_branch = Branch
    /\ pf_start = 0 /\ pf_end = 0 /\ pf_max_pages = 0
    /\ page = 0 /\ all_prs = << >> /\ pf_resps = << >> /\ pf_pages = << >>
    /\ pf_result = None /\ pf_value = NoValue /\ pf_calls = 0

\* prs[0].get('head', {}).get('repo', {}).get('description', ''): a missing
\* key yields the default, a null head or repo makes the next .get raise
\* AttributeError, a null description is handed on as it is.
DescriptionRaises(meta) == meta \in {"head_null", "repo_null"}

repo_description(meta) ==
    CASE meta = "full" -> "description"
      [] meta = "description_null" -> "null"
      [] OTHER -> ""

\* get_cache_key: the md5 of "owner/repo/branch/start/end" (owner and repo are
\* fixed for one run).
get_cache_key(start_date, end_date, branch) == << "prs", branch, start_date, end_date >>

\* "if start_date > end_date: raise ValidationError"
InvalidRange_strict(start_date, end_date) == start_date >= end_date

InvalidRange(start_date, end_date) == start_date > end_date

\* The call up to its first request: the cache lookup, then the validation.
StartFetch(start_date, end_date, branch, max_pages) ==
    /\ pf_branch' = branch
    /\ pf_start' = start_date /\ pf_end' = end_date /\ pf_max_pages' = max_pages
    /\ pf_resps' = << >> /\ pf_pages' = << >> /\ all_prs' = << >>
    /\ LET key == get_cache_key(start_date, end_date, branch) IN
       IF CacheFresh(key)
       THEN /\ pf_pc' = "returned" /\ pf_result' = Returned
            /\ pf_value' = cache[key].data
            /\ page' = 0 /\ cache' = cache
       ELSE /\ cache' = CacheAfterGet(key)
            /\ pf_value' = NoValue
            /\ IF InvalidRange(start_date, end_date)
               THEN pf_pc' = "raised" /\ pf_result' = ValidationError /\ page' = 0
               ELSE pf_pc' = "page" /\ pf_result' = None /\ page' = 1
    /\ UNCHANGED << up_prs, up_meta, sleeps, now, api_requests, quota_hit, up_fails >>

\* A caller of fetch_prs_merged_between_dates_optimized.
PRCall(start_date, end_date, max_pages) ==
    /\ pf_pc \in {"idle", "returned", "raised"}
    /\ pf_calls < MaxCalls
    /\ pf_calls' = pf_calls + 1
    /\ StartFetch(start_date, end_date, Branch, max_pages)
    /\ UNCHANGED << retryVars, aggVars, pipeVars, auxVars >>

\* The items of page n of the upstream list.
PageOf(n) ==
    LET lo == (n - 1) * PerPage + 1
        all == up_prs[pf_branch]
        hi == IF n * PerPage < Len(all) THEN n * PerPage ELSE Len(all)
    IN IF lo > Len(all) THEN << >> ELSE SubSeq(all, lo, hi)

\* The filter loop over one page: the PRs kept, and whether a PR merged before
\* start_date ended the loop.
\* (FilterPage_open_end: the same loop without the comparison with end_date.
\* FilterPage_stop_at_first_miss: a loop that ends at the first PR it does
\* not keep, whatever the reason.)
FilterPage_stop_at_first_miss(prs, start_date, end_date) ==
    LET hit(pr) == /\ pr.merged_at # 0
                   /\ start_date <= DateOf(pr.merged_at) /\ DateOf(pr.merged_at) <= end_date
        n == CHOOSE k \in 0 .. Len(prs) :
                 /\ \A i \in 1 .. k : hit(prs[i])
                 /\ (k = Len(prs) \/ ~hit(prs[k + 1]))
    IN [kept |-> SubSeq(prs, 1, n), early |-> n < Len(prs)]

FilterPage_open_end(prs, start_date, end_date) ==
    [kept |-> SelectSeq(prs, LAMBDA pr : pr.merged_at # 0 /\ start_date <= DateOf(pr.merged_at)),
     early |-> FALSE]

RECURSIVE FilterPage(_, _, _)
FilterPage(prs, start_date, end_date) ==
    IF prs = << >> THEN [kept |-> << >>, early |-> FALSE]
    ELSE LET pr == Head(prs)
             merged_date == DateOf(pr.merged_at)
         IN
         IF pr.merged_at # 0 /\ start_date <= merged_date /\ merged_date <= end_date
         THEN LET rest == FilterPage(Tail(prs), start_date, end_date)
              IN [kept |-> << pr >> \o rest.kept, early |-> rest.early]
         ELSE IF pr.merged_at # 0 /\ merged_date < start_date
         THEN [kept |-> << >>, early |-> TRUE]
         ELSE FilterPage(Tail(prs), start_date, end_date)

\* "except GitHubAPIError: raise": a failed page ends the call with that error;
\* nothing is returned and nothing is cached.
OnPageError_partial(err, collected) ==
    [pc |-> "returned", result |-> Returned, value |-> [prs |-> collected, desc |-> ""],
     store |-> TRUE]

OnPageError(err, collected) ==
    [pc |-> "raised", result |-> err, value |-> NoValue, store |-> FALSE]

\* "cache_data(cache_key, result)" at the end of the call: whatever the result.
\* (WriteThrough_skip_empty: an empty PR set is not written.)
WriteThrough_skip_empty(c, key, result) ==
    IF result.prs = << >> THEN c ELSE CacheAfterPut(c, key, result)

WriteThrough(c, key, result) == CacheAfterPut(c, key, result)

\* The answers upstream gives a page request.
PRResponses ==
    { r \in Responses :
        \/ r.net = "timeout"
        \/ r.net = "ok" /\ r.status = 200 /\ r.remaining = 50
        \/ r.net = "ok" /\ r.body = "bad" /\ r.status \in {403, 500} /\ r.remaining \in {-1, 0, 5} }

\* Whether the paging loop goes round again: "if not prs: break",
\* "if len(prs) < config.github.per_page: break" and "while page <= max_pages".
\* (LoopContinues_past_short_page: the loop without the per_page test.)
LoopContinues_past_short_page(prs, next_page, max_pages) ==
    prs # << >> /\ next_page <= max_pages

LoopContinues(prs, next_page, max_pages) ==
    prs # << >> /\ Len(prs) >= PerPage /\ next_page <= max_pages

\* One iteration of "while page <= max_pages": the request for the page and
\* the handling of its answer, up to the return when the loop ends.
PRPage(resp) ==
    /\ pf_pc = "page"
    /\ page <= pf_max_pages
    /\ sleeps' = Slept("rate", rate_limit_delay)
    /\ api_requests' = api_requests + 1
    /\ quota_hit' = (quota_hit \/ QuotaExhausted(resp))
    /\ pf_resps' = Append(pf_resps, resp)
    /\ pf_pages' = Append(pf_pages, page)
    /\ LET r == github_api_call(resp)
           key == get_cache_key(pf_start, pf_end, pf_branch)
           prs == PageOf(page)
           f == FilterPage(prs, pf_start, pf_end)
           kept == all_prs \o f.kept
           next_page == (IF f.early THEN pf_max_pages + 1 ELSE page) + 1
           more == LoopContinues(prs, next_page, pf_max_pages)
           fail == OnPageError(IF r.tag = "raise" THEN r ELSE ProcessingError, all_prs)
           broken == page = 1 /\ prs # << >> /\ DescriptionRaises(up_meta)
       IN IF r.tag = "raise" \/ r.kind = "bad" \/ broken
          THEN /\ pf_pc' = fail.pc /\ pf_result' = fail.result /\ pf_value' = fail.value
               /\ cache' = IF fail.store THEN CacheAfterPut(cache, key, fail.value) ELSE cache
               /\ UNCHANGED << page, all_prs >>
          ELSE IF more
          THEN /\ pf_pc' = "page" /\ page' = next_page /\ all_prs' = kept
               /\ UNCHANGED << pf_result, pf_value, cache >>
          ELSE /\ pf_pc' = "returned" /\ pf_result' = Returned
               /\ all_prs' = (IF prs = << >> THEN all_prs ELSE kept)
               /\ page' = (IF prs = << >> \/ Len(prs) < PerPage THEN page ELSE next_page)
               /\ pf_value' = [prs |-> all_prs',
                                desc |-> IF PageOf(1) # << >> THEN repo_description(up_meta)
                                         ELSE ""]
               /\ cache' = WriteThrough(cache, key, pf_value')
    /\ UNCHANGED << up_prs, up_meta, pf_branch, pf_start, pf_end, pf_max_pages, pf_calls, now,
                    up_fails, retryVars, aggVars, pipeVars, auxVars >>

PRNext ==
    \/ \E s, e \in CallDates : \E m \in 1 .. MaxPages : PRCall(s, e, m)
    \/ \E resp \in PRResponses : PRPage(resp)



\* ---------------------------------------------------------- entry points
PipeIdle ==
    /\ pl_pc = "idle" /\ pl_entry = "none" /\ pl_branches = << >>
    /\ pl_start = 0 /\ pl_end = 0 /\ pl_i = 0 /\ pl_all_prs = << >> /\ pl_outcome = "none"

Entries == {"streamlit", "fastapi", "flask"}
BranchNames == {"production", "staging"}

\* Requests name each branch once, or one branch twice.
MaxBranches == Cardinality(BranchNames)

\* The branch lists a request may carry. The Streamlit multiselect yields each
\* branch at most once; the JSON bodies of the two wrappers are free lists.
BranchLists(entry) ==
    { bs \in SeqsUpTo(BranchNames, MaxBranches) :
        /\ Len(bs) >= 1
        /\ entry = "streamlit" => \A i, j \in 1 .. Len(bs) : i # j => bs[i] # bs[j] }

\* Upstream of the scenario: a pull request has one base branch, so the lists
\* of two branches are disjoint. production holds PRs 101 and 103, staging 102.
ScenarioUpstream ==
    [b \in BranchNames |->
        IF b = "production"
        THEN << [number |-> 101, merged_at |-> 7], [number |-> 103, merged_at |-> 4] >>
        ELSE << [number |-> 102, merged_at |-> 7] >>]

DefaultMaxPages == 10
DefaultMaxWorkers == 5

PipeInit ==
    /\ EnvInit
    /\ up_prs = ScenarioUpstream /\ up_meta = "full"
    /\ pf_pc = "idle" /\ pf_branch = Branch
    /\ pf_start = 0 /\ pf_end = 0 /\ pf_max_pages = 0
    /\ page = 0 /\ all_prs = << >> /\ pf_resps = << >> /\ pf_pages = << >>
    /\ pf_result = None /\ pf_value = NoValue /\ pf_calls = 0
    /\ pl_pc = "fetch"
    /\ pl_entry \in Entries
    /\ pl_branches \in BranchLists(pl_entry)
    /\ pl_start \in CallDates /\ pl_end \in CallDates
    /\ pl_i = 1 /\ pl_all_prs = << >> /\ pl_outcome = "none"

\* "for branch in branches: fetch_prs_merged_between_dates(owner, repo,
\* start_date, end_date, branch)": the call for the next branch.
PipeFetchBranch ==
    /\ pl_pc = "fetch"
    /\ pl_i <= Len(pl_branches)
    /\ pl_pc' = "wait"
    /\ pf_calls' = pf_calls + 1
    /\ StartFetch(pl_start, pl_end, pl_branches[pl_i], DefaultMaxPages)
    /\ UNCHANGED << pl_entry, pl_branches, pl_start, pl_end, pl_i, pl_all_prs, pl_outcome,
                    retryVars, aggVars, auxVars >>

\* branch_prs['branch'] = branch
Tagged(prs, branch) ==
    [i \in 1 .. Len(prs) |->
        [number |-> prs[i].number, title |-> TitleOf(prs[i].number), branch |-> branch]]

\* The Streamlit app lets an exception of the fetch end the run; both wrappers
\* catch it per branch, log a warning and go on with the next branch.
SwallowsBranchError(entry) == entry \in {"fastapi", "flask"}

\* What the loop body does with the fetch's outcome.
PipeBranchResult ==
    /\ pl_pc = "wait"
    /\ pf_pc \in {"returned", "raised"}
    /\ pf_pc' = "idle"
    /\ IF pf_pc = "returned"
       THEN /\ pl_all_prs' = pl_all_prs \o Tagged(pf_value.prs, pl_branches[pl_i])
            /\ pl_i' = pl_i + 1 /\ pl_pc' = "fetch" /\ pl_outcome' = pl_outcome
       ELSE IF SwallowsBranchError(pl_entry)
       THEN /\ pl_i' = pl_i + 1 /\ pl_pc' = "fetch"
            /\ UNCHANGED << pl_all_prs, pl_outcome >>
       ELSE /\ pl_pc' = "done"
            /\ pl_outcome' = (IF pf_result = ValidationError THEN "validation_error"
                              ELSE "github_error")
            /\ UNCHANGED << pl_i, pl_all_prs >>
    /\ UNCHANGED << up_prs, up_meta, pf_branch, pf_start, pf_end, pf_max_pages, page, all_prs,
                    pf_resps, pf_pages, pf_result, pf_value, pf_calls,
                    pl_entry, pl_branches, pl_start, pl_end, envVars, retryVars, aggVars, auxVars >>

\* (drop_duplicates_keep_last: the same call with keep='last'.)
drop_duplicates_keep_last(rows) ==
    LET idx == { i \in 1 .. Len(rows) :
                   \A j \in i + 1 .. Len(rows) : rows[j].number # rows[i].number }
    IN [k \in 1 .. Cardinality(idx) |->
           rows[CHOOSE i \in idx : Cardinality({ j \in idx : j <= i }) = k]]

\* prs.drop_duplicates(subset=['number'], keep='first')
RECURSIVE drop_duplicates(_)
drop_duplicates(rows) ==
    IF rows = << >> THEN << >>
    ELSE LET front == drop_duplicates(SubSeq(rows, 1, Len(rows) - 1))
             last == rows[Len(rows)]
         IN IF \E i \in 1 .. Len(front) : front[i].number = last.number
            THEN front
            ELSE Append(front, last)

\* The Streamlit app and the FastAPI wrapper deduplicate the concatenated
\* rows; the Flask wrapper hands pd.concat(all_prs) on as it is.
\* (Combine_concat_only: no entry point deduplicates.)
Combine_concat_only(entry, rows) == rows

Combine(entry, rows) == IF entry = "flask" THEN rows ELSE drop_duplicates(rows)

\* After the loop: no rows ends the request; otherwise the rows are combined
\* and fetch_commits_from_prs is called with the default worker count.
PipeCombine ==
    /\ pl_pc = "fetch"
    /\ pl_i > Len(pl_branches)
    /\ IF pl_all_prs = << >>
       THEN /\ pl_pc' = "done" /\ pl_outcome' = "no_prs"
            /\ UNCHANGED aggVars
       ELSE /\ pl_pc' = "agg" /\ pl_outcome' = pl_outcome
            /\ ag_pc' = "start"
            /\ ag_prs' = Combine(pl_entry, pl_all_prs)
            /\ ag_workers' = DefaultMaxWorkers
            /\ UNCHANGED << ag_st, ag_out, all_commits, completed, ag_warned, ag_logged >>
    /\ UNCHANGED << pl_entry, pl_branches, pl_start, pl_end, pl_i, pl_all_prs,
                    envVars, retryVars, prVars, auxVars >>

\* The aggregator has returned: the commits go on to the summarizer.
PipeFinish ==
    /\ pl_pc = "agg"
    /\ ag_pc = "returned"
    /\ pl_pc' = "done"
    /\ pl_outcome' = (IF all_commits = << >> THEN "no_commits" ELSE "commits")
    /\ UNCHANGED << pl_entry, pl_branches, pl_start, pl_end, pl_i, pl_all_prs,
                    envVars, retryVars, aggVars, prVars, auxVars >>

\* ------------------------------------------------- one call of the API
NoResponse == [net |-> "none", status |-> 0, remaining |-> -1, body |-> "bad"]

HttpIdle ==
    /\ hp_pc = "idle" /\ hp_token = TRUE /\ hp_rate = FALSE
    /\ hp_resp = NoResponse /\ hp_out = None /\ hp_log = << >>

\* The answers of the network to one request: those of Responses and, for the
\* status codes next to 400, a redirect-range and a bad-request answer.
ProbeResponses ==
    Responses \cup
    [net : {"ok"}, status : {304, 400}, remaining : {-1, 0, 50}, body : {"list"}]

HttpInit ==
    /\ hp_pc = "ready"
    /\ hp_token \in BOOLEAN
    /\ hp_rate \in BOOLEAN
    /\ hp_resp \in ProbeResponses
    /\ hp_out = None /\ hp_log = << >>

\* github_api_call from its first line: without a token it raises before any
\* request; otherwise it sleeps when use_rate_limit is set, sends the request
\* and maps the answer.
\* "if use_rate_limit: time.sleep(config.github.rate_limit_delay)"
\* (RateSleep_never: a call that never sleeps.)
RateSleep_never(rate) == 0

RateSleep(rate) == IF rate THEN rate_limit_delay ELSE 0

ApiCall ==
    /\ hp_pc = "ready"
    /\ hp_pc' = "done"
    /\ IF hp_token
       THEN /\ hp_out' = github_api_call(hp_resp)
            /\ sleeps' = (IF RateSleep(hp_rate) > 0 THEN Slept("rate", RateSleep(hp_rate))
                          ELSE sleeps)
            /\ now' = now + RateSleep(hp_rate)
            /\ hp_log' = Append(hp_log, [rate |-> hp_rate, at |-> now'])
            /\ api_requests' = api_requests + 1
            /\ quota_hit' = QuotaExhausted(hp_resp)
       ELSE /\ hp_out' = ApiError("no_token", 0)
            /\ UNCHANGED << sleeps, now, hp_log, api_requests, quota_hit >>
    /\ UNCHANGED << hp_token, hp_rate, hp_resp, cache, up_fails,
                    retryVars, aggVars, prVars, pipeVars, combVars, storeVars, memoVars, docVars >>

\* The caller makes its next call once the one before has returned or raised.
NextApiCall ==
    /\ hp_pc = "done"
    /\ Len(hp_log) < MaxBurst
    /\ hp_pc' = "ready"
    /\ hp_token' \in BOOLEAN
    /\ hp_rate' \in BOOLEAN
    /\ hp_resp' \in AggResponses
    /\ UNCHANGED << hp_out, hp_log, envVars, retryVars, aggVars, prVars, pipeVars,
                    combVars, storeVars, memoVars, docVars >>

PaceNext ==
    \/ ApiCall
    \/ NextApiCall

HttpNext == ApiCall

\* ------------------------------------------------- the two cache functions
StoreKeys == { CommitCacheKey(101), CommitCacheKey(102) }
StoreValues == {1, 2}
FileStates == {"missing", "fresh", "expired", "corrupt", "unreadable"}
DirStates == {"ok", "no_access", "uncreatable"}

\* The cache directory is usable, every cache file is sound, and neither
\* cache function has been called directly.
NoCall == [op |-> "none", key |-> << "none", 0 >>, out |-> None, at |-> 0]

StoreIdle ==
    /\ ch_dir = "ok" /\ ch_health = << >> /\ ch_last = NoCall /\ ch_written = << >>

OSErrorRaised == [tag |-> "raise", kind |-> "oserror", status |-> 0, val |-> 0]

\* The files a previous run left behind. A corrupt or unreadable file is
\* either young or older than CACHE_TTL. A directory that cannot be created
\* (its path is taken by a file, or its parent is read-only) holds no file.
StoreInit ==
    /\ sleeps = << >> /\ now = CACHE_TTL /\ api_requests = 0 /\ quota_hit = FALSE
    /\ up_fails = [p \in PRIds |-> 0]
    /\ ch_dir \in DirStates
    /\ \E st \in [StoreKeys -> FileStates] : \E old \in SUBSET StoreKeys :
          /\ \A k \in old : st[k] \in {"corrupt", "unreadable"}
          /\ ch_dir = "uncreatable" => \A k \in StoreKeys : st[k] = "missing"
          /\ cache = [k \in { x \in StoreKeys : st[x] # "missing" } |->
                        [data |-> 1,
                         mtime |-> IF st[k] = "expired" \/ k \in old THEN 0 ELSE now - 1]]
          /\ ch_health = [k \in { x \in StoreKeys : st[x] \in {"corrupt", "unreadable"} } |->
                            st[k]]
    /\ ch_last = NoCall
    /\ ch_written = << >>

Sound(key) == key \notin DOMAIN ch_health

Without(f, key) == [k \in DOMAIN f \ {key} |-> f[k]]

\* get_cached_data(cache_key): ensure_cache_dir() runs before the try block;
\* inside it the file is looked up, its age compared with CACHE_TTL, and it is
\* unpickled or removed; every exception inside the try block is logged and
\* None is returned.
get_cached_data(key) ==
    IF ch_dir = "uncreatable"
    THEN [out |-> OSErrorRaised, cache |-> cache, health |-> ch_health]
    ELSE IF ch_dir = "no_access" \/ key \notin DOMAIN cache
    THEN [out |-> None, cache |-> cache, health |-> ch_health]
    ELSE IF CacheFresh(key)
    THEN [out |-> IF Sound(key) THEN Value(cache[key].data) ELSE None,
          cache |-> cache, health |-> ch_health]
    ELSE [out |-> None, cache |-> Without(cache, key), health |-> Without(ch_health, key)]

CacheGet(key) ==
    /\ LET r == get_cached_data(key) IN
          /\ ch_last' = [op |-> "get", key |-> key, out |-> r.out, at |-> now]
          /\ cache' = r.cache
          /\ ch_health' = r.health
    /\ UNCHANGED << ch_dir, ch_written, sleeps, now, api_requests, quota_hit, up_fails,
                    retryVars, aggVars, prVars, pipeVars, combVars, memoVars, httpVars, docVars >>

\* cache_data(cache_key, data): ensure_cache_dir() runs before the try block;
\* inside it the file is opened for writing and the data pickled into it; a
\* failure to open it is logged and the old file stays.
WriteReaches(key) ==
    /\ ch_dir = "ok"
    /\ key \in DOMAIN ch_health => ch_health[key] # "unreadable"

CachePut(key, data) ==
    /\ ch_last' = [op |-> "put", key |-> key,
                   out |-> IF ch_dir = "uncreatable" THEN OSErrorRaised ELSE None,
                   at |-> now]
    /\ IF WriteReaches(key)
       THEN /\ cache' = CacheAfterPut(cache, key, data)
            /\ ch_health' = Without(ch_health, key)
            /\ ch_written' = [k \in DOMAIN ch_written \cup {key} |->
                                IF k = key THEN [val |-> data, at |-> now] ELSE ch_written[k]]
       ELSE UNCHANGED << cache, ch_health, ch_written >>
    /\ UNCHANGED << ch_dir, sleeps, now, api_requests, quota_hit, up_fails,
                    retryVars, aggVars, prVars, pipeVars, combVars, memoVars, httpVars, docVars >>

\* time.time() moves on. The clock is read at the instants just before and
\* at every multiple of CACHE_TTL.
ClockStep == IF now % CACHE_TTL = 0 THEN CACHE_TTL - 1 ELSE 1
Horizon == CACHE_TTL * (MaxTicks + 1)

Tick ==
    /\ now + ClockStep <= Horizon
    /\ now' = now + ClockStep
    /\ UNCHANGED << sleeps, cache, api_requests, quota_hit, up_fails,
                    retryVars, aggVars, prVars, pipeVars, auxVars >>

StoreNext ==
    \/ \E k \in StoreKeys : CacheGet(k)
    \/ \E k \in StoreKeys : \E v \in StoreValues : CachePut(k, v)
    \/ Tick

\* ------------------------------------ memoization over the disk cache
\* The two memoized functions: fetch_prs_merged_between_dates_optimized
\* (st.cache_data(ttl=1800)) and fetch_commits_from_prs_optimized
\* (st.cache_data(ttl=3600)), each called with one fixed set of arguments.
Memoized == {"prs", "commits"}

MemoTTL(fn) == IF fn = "prs" THEN PRS_MEMO_TTL ELSE COMMITS_MEMO_TTL

\* The disk cache key the body of the function looks up.
DiskKey(fn) == IF fn = "prs" THEN get_cache_key(2, 3, Branch) ELSE CommitCacheKey(101)

NothingServed == [fn |-> "none", tag |-> "none", fetched |-> 0, at |-> 0]

MemoIdle == mm_memo = << >> /\ mm_served = NothingServed

MemoInit == mm_memo = << >> /\ mm_served = NothingServed

\* st.cache_data: a stored result is handed out while younger than the ttl.
MemoHit(fn) == fn \in DOMAIN mm_memo /\ now - mm_memo[fn].stored < MemoTTL(fn)

Memoize(fn, fetched) ==
    [f \in DOMAIN mm_memo \cup {fn} |->
        IF f = fn THEN [fetched |-> fetched, stored |-> now] ELSE mm_memo[f]]

\* One call of a memoized function. A result is represented by the time its
\* content was fetched from the API. On a memo miss the body runs: a fresh
\* disk entry is returned, otherwise the API is asked and a successful answer
\* is written to disk. The value the body returns is memoized. A failed
\* request makes the PR fetch raise; the aggregator logs it and returns an
\* empty frame.
MemoCall(fn, api_ok) ==
    LET key == DiskKey(fn) IN
    /\ MemoHit(fn) \/ CacheFresh(key) \/ api_requests < MaxCalls
    /\ IF MemoHit(fn)
       THEN /\ mm_served' = [fn |-> fn, tag |-> "value",
                             fetched |-> mm_memo[fn].fetched, at |-> now]
            /\ UNCHANGED << mm_memo, cache, api_requests >>
       ELSE IF CacheFresh(key)
       THEN /\ mm_served' = [fn |-> fn, tag |-> "value",
                             fetched |-> cache[key].data, at |-> now]
            /\ mm_memo' = Memoize(fn, cache[key].data)
            /\ UNCHANGED << cache, api_requests >>
       ELSE /\ api_requests' = api_requests + 1
            /\ IF api_ok
               THEN /\ cache' = CacheAfterPut(CacheAfterGet(key), key, now)
                    /\ mm_memo' = Memoize(fn, now)
                    /\ mm_served' = [fn |-> fn, tag |-> "value", fetched |-> now, at |-> now]
               ELSE /\ cache' = CacheAfterGet(key)
                    /\ IF fn = "prs"
                       THEN /\ mm_memo' = mm_memo
                            /\ mm_served' = [fn |-> fn, tag |-> "raise",
                                             fetched |-> 0, at |-> now]
                       ELSE /\ mm_memo' = Memoize(fn, now)
                            /\ mm_served' = [fn |-> fn, tag |-> "empty",
                                             fetched |-> now, at |-> now]
    /\ UNCHANGED << sleeps, now, quota_hit, up_fails,
                    retryVars, aggVars, prVars, pipeVars, combVars, storeVars, httpVars, docVars >>

\* time.time() moves on, observed every Granule seconds.
Granule == CACHE_TTL \div 6

TickGranule ==
    /\ now + Granule <= Horizon
    /\ now' = now + Granule
    /\ UNCHANGED << sleeps, cache, api_requests, quota_hit, up_fails,
                    retryVars, aggVars, prVars, pipeVars, auxVars >>

MemoNext ==
    \/ \E fn \in Memoized : \E ok \in BOOLEAN : MemoCall(fn, ok)
    \/ TickGranule

\* ------------------------------------------ the text for the summarizer
EmptyText == << >>

TextIdle ==
    /\ tx_pc = "idle" /\ tx_raw = << >> /\ tx_upstream = FALSE
    /\ tx_frame = << >> /\ tx_text = EmptyText

\* ----------------------------------------------------- the summarizer
\* What client.chat.completions.create does with one request: it raises, or
\* it returns a response without choices, with empty content, with a content
\* of fewer than 50 characters, or with a full text.
ApiAnswers == {"raise", "no_choices", "empty", "short", "text"}

NoContent == {"no_choices", "empty"}

SumRaise(kind) == [tag |-> "raise", kind |-> kind, status |-> 0, val |-> 0]
SumValue(kind) == [tag |-> "value", kind |-> kind, status |-> 0, val |-> 0]

SumIdle ==
    /\ sm_pc = "idle" /\ sm_key = TRUE /\ sm_cached = "none" /\ sm_many = FALSE
    /\ sm_answers = << "text", "text" >> /\ sm_handler = "ok" /\ sm_dir = "ok"
    /\ sm_calls = 0 /\ sm_written = "none" /\ sm_out = None /\ sm_log = << >>

DocIdle == TextIdle /\ SumIdle

SumInit ==
    /\ sm_pc = "ready"
    /\ sm_key \in BOOLEAN
    /\ sm_cached \in {"none", "changelog", "fallback"}
    /\ sm_many \in BOOLEAN
    /\ sm_answers \in [1 .. 2 -> ApiAnswers]
    /\ sm_handler \in {"ok", "fails"}
    /\ sm_dir \in {"ok", "unwritable"}
    /\ sm_calls = 0 /\ sm_written = "none" /\ sm_out = None /\ sm_log = << >>

\* generate_changelog_single_step with the n-th answer of the API: a raising
\* request raises, a response without content raises OpenAIAPIError("Invalid
\* response from OpenAI API"), a content is returned.
generate_changelog_single_step(answers, n) ==
    [out |-> IF answers[n] = "raise" THEN SumRaise("Exception")
             ELSE IF answers[n] \in NoContent THEN SumRaise("OpenAIAPIError")
             ELSE SumValue(answers[n]),
     calls |-> n]

\* generate_changelog_with_reasoning: the analysis request, then the final
\* request; without choices in the analysis it falls back to the single
\* step; without content in the final response it returns the analysis, or
\* the text "Failed to generate changelog" when there is no analysis.
generate_changelog_with_reasoning(answers) ==
    IF answers[1] = "raise" THEN [out |-> SumRaise("Exception"), calls |-> 1]
    ELSE IF answers[1] = "no_choices" THEN generate_changelog_single_step(answers, 2)
    ELSE [out |-> IF answers[2] = "raise" THEN SumRaise("Exception")
                  ELSE IF answers[2] \in NoContent
                       THEN (IF answers[1] = "empty" THEN SumValue("short")
                             ELSE SumValue(answers[1]))
                  ELSE SumValue(answers[2]),
          calls |-> 2]

\* validate_and_enhance_changelog: a text of fewer than 50 characters is
\* replaced by the fallback changelog, a longer one is completed.
validate_and_enhance_changelog(kind) == IF kind = "short" THEN "fallback" ELSE "changelog"

\* cache_openai_response: a failing write is logged and swallowed.
SumWrite(dir, changelog) == IF dir = "ok" THEN changelog ELSE "none"

\* "except Exception" of gpt_inference_changelog_optimized: the fallback
\* changelog is created, cached and returned; OpenAIAPIError is raised only
\* when the handler itself fails.
OnSummaryError(handler, dir, calls) ==
    IF handler = "ok"
    THEN [out |-> SumValue("fallback"), written |-> SumWrite(dir, "fallback"), calls |-> calls,
          failed |-> TRUE]
    ELSE [out |-> SumRaise("OpenAIAPIError"), written |-> "none", calls |-> calls,
          failed |-> TRUE]

gpt_inference_changelog(key, cached, many, answers, handler, dir) ==
    IF cached # "none"
    THEN [out |-> SumValue(cached), written |-> "none", calls |-> 0, failed |-> FALSE]
    ELSE IF ~key
    THEN [out |-> None, written |-> "none", calls |-> 0, failed |-> FALSE]
    ELSE LET raw == IF many THEN generate_changelog_with_reasoning(answers)
                    ELSE generate_changelog_single_step(answers, 1)
         IN IF raw.out.tag = "raise"
            THEN OnSummaryError(handler, dir, raw.calls)
            ELSE LET changelog == validate_and_enhance_changelog(raw.out.kind)
                 IN [out |-> SumValue(changelog), written |-> SumWrite(dir, changelog),
                     calls |-> raw.calls, failed |-> FALSE]

SumCall ==
    /\ sm_pc = "ready"
    /\ sm_pc' = "done"
    /\ LET r == gpt_inference_changelog(sm_key, sm_cached, sm_many, sm_answers,
                                        sm_handler, sm_dir)
       IN /\ sm_out' = r.out
          /\ sm_written' = r.written
          /\ sm_calls' = r.calls
          /\ sm_log' = Append(sm_log, [failed |-> r.failed, calls |-> r.calls,
                                       written |-> r.written])
    /\ UNCHANGED << sm_key, sm_cached, sm_many, sm_answers, sm_handler, sm_dir,
                    envVars, retryVars, aggVars, prVars, pipeVars,
                    combVars, storeVars, memoVars, httpVars, textVars >>

\* What the API answers the requests of a later call.
RepeatAnswers == { << "text", "text" >>, << "raise", "raise" >> }

\* The file a call finds under its key: what the call before wrote, or what
\* it found itself when it wrote nothing; nothing once the file is
\* OPENAI_CACHE_TTL old.
CacheFileAfter(written, cached, expired) ==
    IF expired THEN "none" ELSE IF written # "none" THEN written ELSE cached

\* The caller asks again with the same commits, dates, owner and repository.
SumAgain(expired) ==
    /\ sm_pc = "done"
    /\ Len(sm_log) < MaxRounds
    /\ sm_pc' = "ready"
    /\ sm_cached' = CacheFileAfter(sm_written, sm_cached, expired)
    /\ sm_answers' \in RepeatAnswers
    /\ sm_calls' = 0 /\ sm_written' = "none" /\ sm_out' = None
    /\ UNCHANGED << sm_key, sm_many, sm_handler, sm_dir, sm_log,
                    envVars, retryVars, aggVars, prVars, pipeVars,
                    combVars, storeVars, memoVars, httpVars, textVars >>

SumNext ==
    \/ SumCall
    \/ \E expired \in BOOLEAN : SumAgain(expired)


\* The PR rows commits are fetched for; the third is PR 101 under the title
\* of another row.
TextRows ==
    { [number |-> 101, title |-> TitleOf(101)],
      [number |-> 102, title |-> TitleOf(102)],
      [number |-> 101, title |-> TitleOf(102)] }

\* Commit messages as GitHub delivers them: two ordinary ones, a merge
\* message, and a merge message behind a quote character.
TextMessages ==
    { << "fix", "a@b.io" >>, << "docs" >>,
      << MergePrefix, "dev" >>, << "quote", MergePrefix, "dev" >> }

RawCommits == [row : TextRows, commit : [sha : {1}, message : TextMessages]]

TextInit ==
    /\ tx_pc = "raw"
    /\ tx_raw \in SeqsUpTo(RawCommits, MaxRecords)
    /\ tx_upstream = FALSE /\ tx_frame = << >> /\ tx_text = EmptyText

\* The aggregated commit set: the sanitized commits of each fetch go through
\* _transform_commits_to_records and the records are appended in the order
\* the fetches are collected.
RECURSIVE Aggregated(_)
Aggregated(raw) ==
    IF raw = << >> THEN << >>
    ELSE transform_commits_to_records(sanitize_api_response(<< Head(raw).commit >>),
                                      Head(raw).row)
            \o Aggregated(Tail(raw))

TextAggregate ==
    /\ tx_pc = "raw"
    /\ tx_pc' = "frame"
    /\ tx_upstream' = TRUE
    /\ tx_frame' = Aggregated(tx_raw)
    /\ UNCHANGED << tx_raw, tx_text, envVars, retryVars, aggVars, prVars, pipeVars,
                    combVars, storeVars, memoVars, httpVars, sumVars >>

\* A caller that builds the DataFrame itself, one row per commit, nothing
\* filtered.
TextDirect ==
    /\ tx_pc = "raw"
    /\ tx_pc' = "frame"
    /\ tx_upstream' = FALSE
    /\ tx_frame' = [i \in 1 .. Len(tx_raw) |->
                       [pr |-> tx_raw[i].row.number, title |-> tx_raw[i].row.title,
                        sha |-> tx_raw[i].commit.sha, message |-> tx_raw[i].commit.message]]
    /\ UNCHANGED << tx_raw, tx_text, envVars, retryVars, aggVars, prVars, pipeVars,
                    combVars, storeVars, memoVars, httpVars, sumVars >>

\* mask = ~pr_commit_data['Commit Message'].str.startswith("Merge branch")
\* (MergeMask_keep_all: no row is masked.)
\* (MergeMask_exact: only a message that is "Merge branch" and nothing more
\* is masked.)
MergeMask_keep_all(r) == TRUE

MergeMask_exact(r) == r.message # << MergePrefix >>

MergeMask(r) == ~StartsWithMerge(r.message)

GroupKey(r) == << r.pr, r.title >>

\* The order of group keys: by PR number, then by title.
KeyBefore(a, b) == a[1] < b[1] \/ (a[1] = b[1] /\ a[2] < b[2])

RECURSIVE SortedKeys(_)
SortedKeys(keys) ==
    IF keys = {} THEN << >>
    ELSE LET least == CHOOSE k \in keys : \A o \in keys \ {k} : KeyBefore(k, o)
         IN << least >> \o SortedKeys(keys \ {least})

\* (GroupBy_first_seen: groupby(..., sort=False), the groups in the order in
\* which their keys first appear.)
GroupBy_first_seen(frame) ==
    LET keyset == { GroupKey(frame[i]) : i \in 1 .. Len(frame) }
        first(k) == CHOOSE i \in 1 .. Len(frame) :
                        /\ GroupKey(frame[i]) = k
                        /\ \A j \in 1 .. i - 1 : GroupKey(frame[j]) # k
        keys == [n \in 1 .. Cardinality(keyset) |->
                    CHOOSE k \in keyset :
                        Cardinality({ o \in keyset : first(o) < first(k) }) = n - 1]
    IN [g \in 1 .. Len(keys) |->
           [key |-> keys[g],
            rows |-> SelectSeq(frame, LAMBDA r : GroupKey(r) = keys[g])]]

\* groupby(['PR Number', 'PR Title']) with its default sort=True: one group
\* per key, the groups in ascending key order, each holding its messages in
\* row order.
GroupBy(frame) ==
    LET keys == SortedKeys({ GroupKey(frame[i]) : i \in 1 .. Len(frame) })
    IN [g \in 1 .. Len(keys) |->
           [key |-> keys[g],
            rows |-> SelectSeq(frame, LAMBDA r : GroupKey(r) = keys[g])]]

\* f"PR #{row['PR Number']}: {row['PR Title']}"
HeaderLine(key) == << "PR #", ToString(key[1]), ": ", ToString(key[2]) >>

\* f"- {msg}"
BulletLine(message) == << "- " >> \o message

\* One paragraph: the header line and a bullet per message ("\n".join).
Paragraph(group) ==
    << HeaderLine(group.key) >>
        \o [i \in 1 .. Len(group.rows) |-> BulletLine(group.rows[i].message)]

\* "\n\n".join(overall_text): an empty line between two paragraphs.
RECURSIVE JoinParagraphs(_)
JoinParagraphs(paragraphs) ==
    IF paragraphs = << >> THEN EmptyText
    ELSE IF Len(paragraphs) = 1 THEN Head(paragraphs)
    ELSE Head(paragraphs) \o << << >> >> \o JoinParagraphs(Tail(paragraphs))

extract_messages_from_commits(frame) ==
    IF frame = << >> THEN EmptyText
    ELSE LET filtered_data == SelectSeq(frame, MergeMask)
         IN IF filtered_data = << >> THEN EmptyText
            ELSE LET grouped == GroupBy(filtered_data)
                 IN JoinParagraphs([g \in 1 .. Len(grouped) |-> Paragraph(grouped[g])])

TextExtract ==
    /\ tx_pc = "frame"
    /\ tx_pc' = "done"
    /\ tx_text' = extract_messages_from_commits(tx_frame)
    /\ UNCHANGED << tx_raw, tx_upstream, tx_frame, envVars, retryVars, aggVars, prVars,
                    pipeVars, combVars, storeVars, memoVars, httpVars, sumVars >>

TextNext ==
    \/ TextAggregate
    \/ TextDirect
    \/ TextExtract

\* ------------------------------------------- combining per-branch PR sets
CombIdle == cb_pc = "idle" /\ cb_entry = "none" /\ cb_in = << >> /\ cb_prs = << >>

AuxIdle == CombIdle /\ StoreIdle /\ MemoIdle /\ HttpIdle /\ DocIdle

PRItems(nums) == [i \in 1 .. Len(nums) |-> [number |-> nums[i], merged_at |-> 4]]

\* What the fetch of one branch may have returned: a non-empty list of PRs
\* (an empty result is not appended to all_prs).
BranchResults ==
    { [branch |-> b, prs |-> PRItems(q)] :
        b \in BranchNames, q \in SeqsUpTo(PRIds, MaxRows) \ { << >> } }

CombInit ==
    /\ cb_pc = "input"
    /\ cb_entry \in Entries
    /\ cb_in \in { q \in SeqsUpTo(BranchResults, MaxBranches) :
                     /\ Len(q) >= 1
                     /\ [i \in 1 .. Len(q) |-> q[i].branch] \in BranchLists(cb_entry) }
    /\ cb_prs = << >>

\* pd.concat(all_prs, ignore_index=True) of the tagged per-branch frames.
RECURSIVE ConcatTagged(_)
ConcatTagged(results) ==
    IF results = << >> THEN << >>
    ELSE Tagged(Head(results).prs, Head(results).branch) \o ConcatTagged(Tail(results))

\* "prs = pd.concat(all_prs, ignore_index=True)" and, where the entry point
\* has it, "prs = prs.drop_duplicates(subset=['number'], keep='first')".
CombineSets ==
    /\ cb_pc = "input"
    /\ cb_pc' = "combined"
    /\ cb_prs' = Combine(cb_entry, ConcatTagged(cb_in))
    /\ UNCHANGED << cb_entry, cb_in, envVars, retryVars, aggVars, prVars, pipeVars,
                    storeVars, memoVars, httpVars, docVars >>

CombNext == CombineSets

PipeNext ==
    \/ PipeFetchBranch
    \/ \E resp \in PRResponses : PRPage(resp)
    \/ PipeBranchResult
    \/ PipeCombine
    \/ AggSubmit
    \/ \E i \in 1 .. Len(ag_st) : TaskStart(i)
    \/ \E i \in 1 .. Len(ag_st) : \E resp \in AggResponses : TaskResponse(i, resp)
    \/ \E i \in 1 .. Len(ag_st) : TaskCollect(i)
    \/ AggReturn
    \/ PipeFinish

\* ----------------------------------------------------------- retry wrapper
RetryIdle ==
    /\ rt_pc = "idle" /\ rt_pr = 0 /\ rt_max = 0 /\ rt_attempt = 0
    /\ rt_hist = << >> /\ rt_result = None

RetryInit ==
    /\ rt_pc = "loop"
    /\ rt_pr \in PRIds
    /\ rt_max \in 0 .. MaxRetries
    /\ rt_attempt = 0
    /\ rt_hist = << >>
    /\ rt_result = None

\* Two wrong readings of the last-attempt test: giving up one attempt early, and never raising.
IsLastAttempt_early(attempt, max_retries) == attempt >= max_retries - 2

IsLastAttempt_never(attempt, max_retries) == FALSE

\* except GitHubAPIError: "if attempt == max_retries - 1: raise e".
IsLastAttempt(attempt, max_retries) == attempt = max_retries - 1

\* "wait_time = config.github.rate_limit_delay * (2 ** attempt)"
\* (BackoffWait_flat: the same delay after every failure.)
BackoffWait_flat(attempt) == rate_limit_delay

BackoffWait(attempt) == rate_limit_delay * Pow2(attempt)

\* An exception that is not a GitHubAPIError. fetch_commits_from_pr turns
\* every such exception into None, so only a replaced fetch can raise it.
UntypedError == [tag |-> "raise", kind |-> "exception", status |-> 0, val |-> 0]

\* The sleep between two attempts: the backoff after a GitHubAPIError,
\* time.sleep(config.github.rate_limit_delay) after any other exception.
RetryWait(out, attempt) ==
    IF out.kind = "exception" THEN rate_limit_delay ELSE BackoffWait(attempt)

\* "if commits is not None: return commits" fails for None and neither
\* except clause is entered: the loop goes to its next attempt at once.
\* (NoneStep_flat_sleep: None handled like an exception, with the flat sleep.)
NoneStep_flat_sleep(attempt) ==
    [pc |-> "loop", attempt |-> attempt + 1,
     waits |-> << [why |-> "backoff", secs |-> rate_limit_delay] >>]

NoneStep(attempt) == [pc |-> "loop", attempt |-> attempt + 1, waits |-> << >>]

\* The body of "for attempt in range(max_retries)" for one outcome of the
\* fetch: a value is returned, None goes on to the next attempt without a
\* sleep, an exception is raised again on the last attempt and slept on
\* otherwise.
RetryStep(out, attempt, max_retries) ==
    CASE out.tag = "value" ->
            [pc |-> "returned", attempt |-> attempt, waits |-> << >>]
      [] out.tag = "none" -> NoneStep(attempt)
      [] OTHER ->
            IF IsLastAttempt(attempt, max_retries)
            THEN [pc |-> "raised", attempt |-> attempt, waits |-> << >>]
            ELSE [pc |-> "loop", attempt |-> attempt + 1,
                  waits |-> << [why |-> "backoff", secs |-> RetryWait(out, attempt)] >>]

\* One iteration of "for attempt in range(max_retries)": the call of
\* fetch_commits_from_pr (which sleeps rate_limit_delay before its request)
\* and the handling of its outcome.
RetryAttempt(resp) ==
    /\ rt_pc = "loop"
    /\ rt_attempt < rt_max
    /\ LET out == fetch_commits_from_pr(rt_pr, resp)
           step == RetryStep(out, rt_attempt, rt_max)
       IN /\ rt_hist' = Append(rt_hist, out)
          /\ api_requests' = api_requests + 1
          /\ quota_hit' = (quota_hit \/ QuotaExhausted(resp))
          /\ rt_pc' = step.pc
          /\ rt_attempt' = step.attempt
          /\ rt_result' = IF step.pc = "loop" THEN rt_result ELSE out
          /\ sleeps' = Slept("rate", rate_limit_delay) \o step.waits
    /\ UNCHANGED << rt_pr, rt_max, now, cache, up_fails, aggVars, prVars, pipeVars, auxVars >>

\* The loop ran out without a value and without an error: return None.
RetryExhausted ==
    /\ rt_pc = "loop"
    /\ rt_attempt >= rt_max
    /\ rt_pc' = "returned"
    /\ rt_result' = None
    /\ UNCHANGED << rt_pr, rt_max, rt_attempt, rt_hist, envVars, aggVars, prVars, pipeVars, auxVars >>

RetryNext ==
    \/ \E resp \in Responses : RetryAttempt(resp)
    \/ RetryExhausted

\* The wrapper over a replaced fetch, as its unit tests run it
\* (patch('utils.github_data_fetch.fetch_commits_from_pr', side_effect=...)):
\* the fetch returns a commit list or None, or raises a GitHubAPIError or
\* another exception; no request is sent and only the wrapper sleeps.
StubOutcomes == { Value(101), None, ApiError("api_error", 500), UntypedError }

RetryStubAttempt(out) ==
    /\ rt_pc = "loop"
    /\ rt_attempt < rt_max
    /\ LET step == RetryStep(out, rt_attempt, rt_max)
       IN /\ rt_hist' = Append(rt_hist, out)
          /\ rt_pc' = step.pc
          /\ rt_attempt' = step.attempt
          /\ rt_result' = IF step.pc = "loop" THEN rt_result ELSE out
          /\ sleeps' = sleeps \o step.waits
    /\ UNCHANGED << rt_pr, rt_max, now, cache, api_requests, quota_hit, up_fails,
                    aggVars, prVars, pipeVars, auxVars >>

RetryStubNext ==
    \/ \E out \in StubOutcomes : RetryStubAttempt(out)
    \/ RetryExhausted

\* The whole call for a given sequence of outcomes of the fetch, from the
\* given attempt on: the invocations made, the sleeps between attempts and
\* how the call ends ("running" when the sequence ends before the call does).
RECURSIVE RetryRun(_, _, _, _)
RetryRun(outs, attempt, max_retries, waits) ==
    IF attempt >= max_retries
    THEN [calls |-> attempt, waits |-> waits, final |-> "none"]
    ELSE IF attempt + 1 > Len(outs)
    THEN [calls |-> attempt, waits |-> waits, final |-> "running"]
    ELSE LET out == outs[attempt + 1]
             step == RetryStep(out, attempt, max_retries)
         IN IF step.pc = "loop"
            THEN RetryRun(outs, step.attempt, max_retries, waits \o step.waits)
            ELSE [calls |-> attempt + 1, waits |-> waits,
                  final |-> IF step.pc = "raised" THEN "raise" ELSE "value"]

InitRetry == EnvInit /\ RetryInit /\ AggIdle /\ PRIdle /\ PipeIdle /\ AuxIdle

SpecRetry == InitRetry /\ [][RetryNext]_vars

InitRetryStub == EnvInit /\ RetryInit /\ AggIdle /\ PRIdle /\ PipeIdle /\ AuxIdle

SpecRetryStub == InitRetryStub /\ [][RetryStubNext]_vars

InitAgg == AggInit /\ RetryIdle /\ PRIdle /\ PipeIdle /\ AuxIdle

SpecAgg == InitAgg /\ [][AggNext]_vars

InitPR == EnvInit /\ PRInit /\ RetryIdle /\ AggIdle /\ PipeIdle /\ AuxIdle

SpecPR == InitPR /\ [][PRNext]_vars

InitDesc == EnvInit /\ DescInit /\ RetryIdle /\ AggIdle /\ PipeIdle /\ AuxIdle

SpecDesc == InitDesc /\ [][PRNext]_vars

InitComb ==
    /\ EnvInit /\ CombInit /\ StoreIdle /\ MemoIdle /\ HttpIdle
    /\ RetryIdle /\ AggIdle /\ PRIdle /\ PipeIdle /\ DocIdle

SpecComb == InitComb /\ [][CombNext]_vars

InitStore ==
    /\ StoreInit /\ CombIdle /\ MemoIdle /\ HttpIdle
    /\ RetryIdle /\ AggIdle /\ PRIdle /\ PipeIdle /\ DocIdle

InitMemo ==
    /\ EnvInit /\ MemoInit /\ CombIdle /\ StoreIdle /\ HttpIdle
    /\ RetryIdle /\ AggIdle /\ PRIdle /\ PipeIdle /\ DocIdle

InitHttp ==
    /\ EnvInit /\ HttpInit /\ CombIdle /\ StoreIdle /\ MemoIdle
    /\ RetryIdle /\ AggIdle /\ PRIdle /\ PipeIdle /\ DocIdle

SpecHttp == InitHttp /\ [][HttpNext]_vars

InitPace ==
    /\ EnvInit /\ HttpInit /\ CombIdle /\ StoreIdle /\ MemoIdle /\ DocIdle
    /\ RetryIdle /\ AggIdle /\ PRIdle /\ PipeIdle

SpecPace == InitPace /\ [][PaceNext]_vars

SpecMemo == InitMemo /\ [][MemoNext]_vars

SpecStore == InitStore /\ [][StoreNext]_vars

InitPipe == PipeInit /\ RetryIdle /\ AggIdle /\ AuxIdle

SpecPipe == InitPipe /\ [][PipeNext]_vars

InitText ==
    /\ EnvInit /\ TextInit /\ SumIdle /\ CombIdle /\ StoreIdle /\ MemoIdle /\ HttpIdle
    /\ RetryIdle /\ AggIdle /\ PRIdle /\ PipeIdle

SpecText == InitText /\ [][TextNext]_vars

InitSum ==
    /\ EnvInit /\ SumInit /\ TextIdle /\ CombIdle /\ StoreIdle /\ MemoIdle /\ HttpIdle
    /\ RetryIdle /\ AggIdle /\ PRIdle /\ PipeIdle

SpecSum == InitSum /\ [][SumNext]_vars

\* --------------------------------------------------- claims: aggregator
Tasks == 1 .. Len(ag_out)

Succeeded(p) == { i \in Tasks : pr_numbers[i] = p /\ ag_out[i].tag = "value" }

RECURSIVE Repeat(_, _)
Repeat(q, n) == IF n = 0 THEN << >> ELSE q \o Repeat(q, n - 1)

RecordsOf(p) == transform_commits_to_records(sanitize_api_response(UpstreamCommits(p)), Row(p))

Range(q) == { q[i] : i \in 1 .. Len(q) }

\* C1: no exception of a task reaches the caller of the aggregator, and on
\* return the commit set holds, for every PR, exactly the records of its
\* non-merge commits once per task of that PR whose fetch succeeded: nothing
\* of a PR whose fetch failed, everything of a PR whose fetch succeeded.
C1_PartialFailure ==
    /\ ag_pc # "raised"
    /\ ag_pc = "returned" =>
          \A p \in PRIds :
              SelectSeq(all_commits, LAMBDA r : r.pr = p)
                  = Repeat(RecordsOf(p), Cardinality(Succeeded(p)))

C1_Witness ==
    /\ ag_pc = "returned"
    /\ \E i, j \in Tasks :
          /\ ag_out[i].tag = "raise" /\ ag_out[j].tag = "value"
          /\ pr_numbers[i] # pr_numbers[j]
          /\ RecordsOf(pr_numbers[i]) # << >>
          /\ all_commits = RecordsOf(pr_numbers[j])
          /\ all_commits # << >>

TransientKinds == {"timeout", "connection", "request_failed", "api_error"}

\* C2 (as claimed): when the aggregator returns, a PR whose commit fetch
\* failed only transiently and fewer than max_retries times (upstream answers
\* after at most MaxFails failures) has its commits in the result.
C2_AggregatorRetries ==
    ag_pc = "returned" =>
        \A i \in Tasks :
            LET p == pr_numbers[i] IN
            ( /\ up_fails[p] < default_max_retries
              /\ \A j \in Tasks : pr_numbers[j] = p =>
                    \/ ag_out[j].tag = "value"
                    \/ ag_out[j].tag = "raise" /\ ag_out[j].kind \in TransientKinds )
            => Range(RecordsOf(p)) \subseteq Range(all_commits)

NoRepeatedPR ==
    \A i, j \in 1 .. Len(ag_prs) : i # j => ag_prs[i].number # ag_prs[j].number

\* C9 (as claimed): once a response of an aggregation over distinct PRs said
\* the quota is exhausted (403, remaining 0), no further API request is issued.
C9_Backpressure ==
    [][(quota_hit /\ NoRepeatedPR) => api_requests' = api_requests]_vars

\* What the paging loop collects from page n on when every request is
\* answered with the upstream list of the branch.
RECURSIVE FetchAll(_, _, _, _, _)
FetchAll(n, start_date, end_date, max_pages, collected) ==
    IF n > max_pages THEN collected
    ELSE LET prs == PageOf(n)
             f == FilterPage(prs, start_date, end_date)
         IN IF prs = << >> THEN collected
            ELSE IF f.early \/ Len(prs) < PerPage THEN collected \o f.kept
            ELSE FetchAll(n + 1, start_date, end_date, max_pages, collected \o f.kept)

ServedFromCache == pf_pc = "returned" /\ pf_pages = << >>

\* C16 (as claimed): a result served from the cache equals the result the
\* same call, with the same max_pages, computes from the unchanged upstream
\* data with an empty cache.
C16_CacheIsOptimization ==
    ServedFromCache =>
        pf_value.prs = FetchAll(1, pf_start, pf_end, pf_max_pages, << >>)

\* C18: when a call has returned an empty PR set, the next call with the same
\* branch and dates returns the same empty result without an API request.
C18_EmptyWriteThrough ==
    [][ ( /\ pf_pc = "returned" /\ pf_value.prs = << >>
          /\ pf_calls' = pf_calls + 1
          /\ pf_branch' = pf_branch /\ pf_start' = pf_start /\ pf_end' = pf_end )
        => ( /\ pf_pc' = "returned" /\ pf_value' = pf_value
             /\ api_requests' = api_requests /\ pf_pages' = << >> ) ]_vars

C18_Witness ==
    /\ pf_calls = 2 /\ ServedFromCache /\ pf_value.prs = << >>
    /\ api_requests = 2 /\ up_prs[pf_branch] # << >>

\* C19: every PR of a returned set has a merge timestamp, and the date of
\* that timestamp lies in [start_date, end_date], both ends included.
C19_FilterInvariant ==
    pf_pc = "returned" =>
        \A i \in 1 .. Len(pf_value.prs) :
            /\ pf_value.prs[i].merged_at # 0
            /\ pf_start <= DateOf(pf_value.prs[i].merged_at)
            /\ DateOf(pf_value.prs[i].merged_at) <= pf_end

C19_Witness ==
    /\ pf_pc = "returned" /\ pf_pages = << 1, 2 >>
    /\ pf_value.prs # << >>
    /\ \E i \in 1 .. Len(pf_value.prs) : DateOf(pf_value.prs[i].merged_at) = pf_end
    /\ \E i, j \in 1 .. Len(up_prs[pf_branch]) :
          /\ up_prs[pf_branch][i].merged_at = 0
          /\ DateOf(up_prs[pf_branch][j].merged_at) > pf_end

\* ---------------------------------------------------------- claims: HTTP
Answered == hp_pc = "done" /\ hp_token /\ hp_resp.net = "ok"

\* C20: an answer with status s >= 400 makes github_api_call raise
\* GitHubAPIError with status_code s: the not-found error for 404, the
\* unauthorized error for 401, the rate-limit error for 403 with a remaining
\* header of 0, the generic API error for every other status and for a 403
\* whose remaining header is above 0. (A 403 without the remaining header is
\* only required to raise with status 403.) A timeout and a connection
\* failure raise the timeout and the connection error. An answer with
\* s < 400 is returned.
C20_HttpErrorMapping ==
    /\ (Answered /\ hp_resp.status >= 400) =>
          /\ hp_out.tag = "raise" /\ hp_out.status = hp_resp.status
          /\ hp_resp.status = 404 => hp_out.kind = "not_found"
          /\ hp_resp.status = 401 => hp_out.kind = "unauthorized"
          /\ (hp_resp.status = 403 /\ hp_resp.remaining = 0) => hp_out.kind = "rate_limit"
          /\ (hp_resp.status = 403 /\ hp_resp.remaining > 0) => hp_out.kind = "api_error"
          /\ hp_resp.status \notin {401, 403, 404} => hp_out.kind = "api_error"
    /\ (Answered /\ hp_resp.status < 400) => hp_out = ApiOk(hp_resp)
    /\ (hp_pc = "done" /\ hp_token /\ hp_resp.net = "timeout") =>
          (hp_out.tag = "raise" /\ hp_out.kind = "timeout")
    /\ (hp_pc = "done" /\ hp_token /\ hp_resp.net = "connection") =>
          (hp_out.tag = "raise" /\ hp_out.kind = "connection")

C20_Witness ==
    /\ Answered /\ hp_resp.status = 400 /\ hp_resp.remaining = 50
    /\ hp_out = ApiError("api_error", 400)

\* --------------------------------------------------------- claims: cache
\* C14: a lookup of a key less than CACHE_TTL after the last write of that key
\* returns the value written; a lookup CACHE_TTL or more after it returns
\* None and leaves no entry for the key, so that the lookup after it misses
\* as well.
C14_RoundTripExpiry ==
    (ch_last.op = "get" /\ ch_last.key \in DOMAIN ch_written) =>
        LET k == ch_last.key
            w == ch_written[k]
        IN /\ ch_last.at - w.at < CACHE_TTL => ch_last.out = Value(w.val)
           /\ ch_last.at - w.at >= CACHE_TTL =>
                 (ch_last.out = None /\ k \notin DOMAIN cache)

C14_Witness ==
    /\ ch_last.op = "get" /\ ch_last.key \in DOMAIN ch_written
    /\ ch_last.at - ch_written[ch_last.key].at = CACHE_TTL - 1
    /\ ch_written[ch_last.key].val = 2
    /\ ch_last.out = Value(2)

\* C15 (as claimed): get_cached_data raises nothing, whatever the state of
\* the cache directory and of the cache file.
C15_LookupNeverThrows == ch_last.op = "get" => ch_last.out.tag # "raise"

\* C17 (as claimed): every result handed to a caller was fetched from the API
\* less than 3600 s before it is handed out.
C17_StalenessBound ==
    mm_served.tag = "value" => mm_served.fetched > mm_served.at - CACHE_TTL

\* ------------------------------------------------------- claims: combine
Deduplicates == {"streamlit", "fastapi"}

NumbersOf(prs) == { prs[i].number : i \in 1 .. Len(prs) }

\* The branch of the first per-branch result that contains PR n.
FirstBranchWith(n) ==
    cb_in[CHOOSE k \in 1 .. Len(cb_in) :
             /\ n \in NumbersOf(cb_in[k].prs)
             /\ \A j \in 1 .. k - 1 : n \notin NumbersOf(cb_in[j].prs)].branch

Distinct(prs) == \A i, j \in 1 .. Len(prs) : prs[i].number = prs[j].number => i = j

C11_BoundedPool == Cardinality(InFlight) <= ag_workers

C11_Witness ==
    /\ ag_pc = "pool"
    /\ Cardinality(InFlight) = ag_workers
    /\ \E i \in 1 .. Len(ag_st) : ag_st[i] = "queued"

\* ---------------------------------------------------- claims: entry points
\* C10 (as claimed): in every entry point and for every list of branches, no
\* two tasks of one aggregation carry the same PR number, so no two workers
\* fetch the same PR at the same time.
C10_OneTaskPerPR ==
    \A i, j \in 1 .. Len(ag_st) :
        (i # j /\ ag_st[i] = "flight" /\ ag_st[j] = "flight") =>
            pr_numbers[i] # pr_numbers[j]

\* ----------------------------------------------------- claims: PR fetch
\* C6: a call with start_date > end_date ends in ValidationError without a
\* single API request, whatever earlier calls left in the cache; a call with
\* start_date <= end_date never ends in ValidationError.
C6_DateValidation ==
    pf_pc # "idle" =>
        /\ pf_start > pf_end =>
              (pf_pc = "raised" /\ pf_result = ValidationError /\ pf_pages = << >>)
        /\ pf_start <= pf_end => pf_result # ValidationError

C6_Witness ==
    /\ pf_start > pf_end /\ pf_pc = "raised" /\ pf_result = ValidationError
    /\ pf_pages = << >> /\ pf_calls = 2 /\ DOMAIN cache # {}

\* C7: a page request answered with status 403 and remaining quota 0 is the
\* last request of the call, and the call raises GitHubAPIError("Rate limit
\* exceeded", 403).
C7_RateLimitStopsPaging ==
    \A k \in 1 .. Len(pf_resps) :
        QuotaExhausted(pf_resps[k]) =>
            /\ k = Len(pf_resps)
            /\ pf_pc = "raised"
            /\ pf_result = ApiError("rate_limit", 403)

C7_Witness ==
    /\ Len(pf_resps) = 1 /\ QuotaExhausted(pf_resps[1]) /\ pf_resps[1].remaining = 0
    /\ pf_pc = "raised" /\ pf_pages = << 1 >>
    /\ pf_max_pages > 1 /\ Len(up_prs[pf_branch]) > PerPage

\* C8: when the request for page k fails with an API error the call raises
\* that error; the pages requested are 1, 2, ..., k, each once; nothing is
\* returned and the cache holds no entry written by this call.
C8_PageFailurePropagates ==
    /\ pf_pages = [i \in 1 .. Len(pf_pages) |-> i]
    /\ Len(pf_pages) = Len(pf_resps)
    /\ \A k \in 1 .. Len(pf_resps) :
          github_api_call(pf_resps[k]).tag = "raise" =>
              /\ k = Len(pf_resps)
              /\ pf_pc = "raised"
              /\ pf_result = github_api_call(pf_resps[k])
              /\ pf_value = NoValue
              /\ (get_cache_key(pf_start, pf_end, pf_branch) \in DOMAIN cache =>
                     cache[get_cache_key(pf_start, pf_end, pf_branch)].mtime < now)

C8_Witness ==
    /\ Len(pf_resps) = 2 /\ github_api_call(pf_resps[2]).tag = "raise"
    /\ all_prs # << >> /\ pf_pc = "raised" /\ pf_value = NoValue

\* ------------------------------------------------- claims: retry wrapper
AllRaised(h) == \A i \in 1 .. Len(h) : h[i].tag = "raise"

BackoffWaits == SelectSeq(sleeps, LAMBDA s : s.why = "backoff")

FatalKinds == {"unauthorized", "not_found", "rate_limit"}

\* C3: after N consecutive GitHubAPIErrors with N < max_retries the wrapper is
\* still looping (it has not given up), and when the next invocation succeeds
\* it returns that value at once: the fetch was invoked exactly N+1 times and
\* no invocation follows a success.
C3_RetrySuccess ==
    /\ (AllRaised(rt_hist) /\ Len(rt_hist) < rt_max) =>
            (rt_pc = "loop" /\ rt_attempt = Len(rt_hist))
    /\ \A n \in 1 .. Len(rt_hist) :
          (rt_hist[n].tag = "value" /\ AllRaised(SubSeq(rt_hist, 1, n - 1))) =>
              /\ rt_pc = "returned"
              /\ rt_result = rt_hist[n]
              /\ rt_result.val = rt_pr
              /\ Len(rt_hist) = n

C3_Witness ==
    /\ rt_pc = "returned" /\ Len(rt_hist) = 3 /\ rt_max = 3
    /\ rt_hist[1].tag = "raise" /\ rt_hist[2].tag = "raise"
    /\ rt_hist[3].tag = "value" /\ rt_result = rt_hist[3]

\* C4: with max_retries >= 1 and a GitHubAPIError on every invocation, the
\* wrapper never invokes the fetch more than max_retries times, never returns,
\* keeps looping until the max_retries-th invocation and then raises the
\* error of that last invocation.
C4_RetryExhaustion ==
    (rt_max >= 1 /\ AllRaised(rt_hist)) =>
        /\ Len(rt_hist) <= rt_max
        /\ rt_pc # "returned"
        /\ (Len(rt_hist) < rt_max => rt_pc = "loop")
        /\ (Len(rt_hist) = rt_max =>
               (rt_pc = "raised" /\ rt_result = rt_hist[rt_max]))

C4_Witness ==
    /\ rt_pc = "raised" /\ rt_max = 3 /\ Len(rt_hist) = 3 /\ AllRaised(rt_hist)
    /\ rt_result = rt_hist[3]

\* C5 (as claimed): when an invocation fails with Unauthorized, NotFound or
\* RateLimitExceeded the wrapper has invoked the fetch exactly once, has not
\* slept a backoff wait, and has raised that error.
C5_FatalNotRetried ==
    (Len(rt_hist) >= 1 /\ rt_hist[1].tag = "raise" /\ rt_hist[1].kind \in FatalKinds) =>
        /\ Len(rt_hist) = 1
        /\ rt_pc = "raised"
        /\ rt_result = rt_hist[1]
        /\ BackoffWaits = << >>

\* The tasks of the aggregation whose fetch produced no commit list.
FailedTasks == { i \in Tasks : ag_out[i].tag # "value" }

\* C21 (as claimed): when the aggregator has returned, the number of
\* user-visible warnings shown during the aggregation equals the number of
\* PRs whose commit fetch failed.
C21_FailureWarnings ==
    ag_pc = "returned" => ag_warned = Cardinality(FailedTasks)

\* ------------------------------------------- claims: text extraction
BeginsWithMerge(message) == Len(message) >= 1 /\ message[1] = "Merge branch"

MergeBullet(line) == Len(line) >= 2 /\ line[1] = "- " /\ line[2] = "Merge branch"

NonMerge(frame) == SelectSeq(frame, LAMBDA r : ~BeginsWithMerge(r.message))

\* C22: no record of the aggregated commit set has a message beginning with
\* "Merge branch"; the extracted text has no bullet for such a message,
\* whether the frame was filtered upstream or not; and the text is the one
\* extracted from the frame with those records removed beforehand.
C22_NoMergeCommits ==
    /\ (tx_pc \in {"frame", "done"} /\ tx_upstream) =>
          \A i \in 1 .. Len(tx_frame) : ~BeginsWithMerge(tx_frame[i].message)
    /\ tx_pc = "done" =>
          /\ \A i \in 1 .. Len(tx_text) : ~MergeBullet(tx_text[i])
          /\ tx_text = extract_messages_from_commits(NonMerge(tx_frame))

C22_Witness ==
    /\ tx_pc = "done" /\ ~tx_upstream
    /\ \E i, j \in 1 .. Len(tx_frame) :
          /\ BeginsWithMerge(tx_frame[i].message)
          /\ ~BeginsWithMerge(tx_frame[j].message)
    /\ Len(tx_text) >= 2

\* C23: for an empty frame and for a frame in which every message begins
\* with "Merge branch" the extraction returns the empty string.
C23_EmptyWhenNothingLeft ==
    (tx_pc = "done" /\ \A i \in 1 .. Len(tx_frame) : BeginsWithMerge(tx_frame[i].message))
        => Len(tx_text) = 0

C23_Witness ==
    /\ tx_pc = "done" /\ ~tx_upstream
    /\ Len(tx_frame) >= 2
    /\ \A i \in 1 .. Len(tx_frame) : BeginsWithMerge(tx_frame[i].message)
    /\ Len(tx_text) = 0

\* The group keys of a frame in the order in which each first appears.
RECURSIVE FirstSeenKeys(_, _)
FirstSeenKeys(frame, seen) ==
    IF frame = << >> THEN << >>
    ELSE LET k == << Head(frame).pr, Head(frame).title >>
         IN IF k \in seen THEN FirstSeenKeys(Tail(frame), seen)
            ELSE << k >> \o FirstSeenKeys(Tail(frame), seen \cup {k})

\* The text the claim describes: a paragraph per key of a non-merge record,
\* header line then one bullet per message, an empty line between paragraphs,
\* the paragraphs in first-appearance order.
ClaimedText(frame) ==
    LET kept == NonMerge(frame)
        keys == FirstSeenKeys(kept, {})
    IN JoinParagraphs(
          [g \in 1 .. Len(keys) |->
              << << "PR #", ToString(keys[g][1]), ": ", ToString(keys[g][2]) >> >>
                  \o [i \in 1 .. Len(SelectSeq(kept, LAMBDA r : << r.pr, r.title >> = keys[g])) |->
                         << "- " >> \o SelectSeq(kept, LAMBDA r : << r.pr, r.title >> = keys[g])[i].message]])

\* C24 (as claimed): the extracted text is exactly the claimed one, the
\* paragraphs in the order in which each PR first appears in the frame.
C24_ParagraphOrder ==
    tx_pc = "done" => tx_text = ClaimedText(tx_frame)

\* --------------------------------------------------- claims: summarizer
\* The last API request the call made raised or came back without content.
LastRequestFailed == sm_calls >= 1 /\ sm_answers[sm_calls] \in {"raise", "no_choices", "empty"}

\* C25 (as claimed): when the summarization request raised or returned no
\* content, the call has raised OpenAIAPIError and returned no changelog.
C25_TypedSummarizerFailure ==
    (sm_pc = "done" /\ LastRequestFailed) =>
        (sm_out.tag = "raise" /\ sm_out.kind = "OpenAIAPIError")

\* -------------------------------------------------- claims: entry points
\* The failures the claim calls fatal: the rejected date range and the
\* GitHub errors for exhausted quota, unauthorized and not found.
FatalFailure(r) == r = ValidationError \/ (r.tag = "raise" /\ r.kind \in FatalKinds)

\* C26 (as claimed): in every entry point, when the PR fetch of a branch has
\* failed with a rejected date range or with a fatal GitHub error, the request
\* ends there with the corresponding error outcome.
C26_FatalErrorsSurface ==
    [][(pl_pc = "wait" /\ pf_pc = "raised" /\ FatalFailure(pf_result)) =>
          /\ pl_pc' = "done"
          /\ pl_outcome' = (IF pf_result = ValidationError THEN "validation_error"
                            ELSE "github_error")]_vars

\* ------------------------------------------ claims: commit provenance
\* The shas upstream holds for a PR.
ShasOf(p) == { UpstreamCommits(p)[i].sha : i \in 1 .. Len(UpstreamCommits(p)) }

\* C27: at every moment of every interleaving, each record collected so far
\* carries the number and title of a row of the PR set handed to the
\* aggregator, and its commit is one upstream holds for that very PR.
C27_ReferentialIntegrity ==
    \A k \in 1 .. Len(all_commits) :
        /\ \E i \in 1 .. Len(ag_prs) :
              /\ ag_prs[i].number = all_commits[k].pr
              /\ ag_prs[i].title = all_commits[k].title
        /\ all_commits[k].sha \in ShasOf(all_commits[k].pr)

C27_Witness ==
    /\ ag_pc = "returned"
    /\ Len(ag_prs) = 2 /\ ag_prs[1].number # ag_prs[2].number
    /\ Len(all_commits) = 2
    /\ all_commits[1].pr = ag_prs[2].number
    /\ all_commits[2].pr = ag_prs[1].number

\* -------------------------------------------------- claims: retry waits
WaitSecs == [k \in 1 .. Len(BackoffWaits) |-> BackoffWaits[k].secs]

\* The waits the claim prescribes for a history of outcomes: after the
\* failure of attempt k (the (k+1)-th invocation) that is not the last
\* attempt, rate_limit_delay * 2^k.
RECURSIVE ExponentialWaits(_, _)
ExponentialWaits(h, i) ==
    IF i > Len(h) THEN << >>
    ELSE (IF h[i].tag = "raise" /\ i < rt_max THEN << rate_limit_delay * (2 ^ (i - 1)) >>
          ELSE << >>) \o ExponentialWaits(h, i + 1)

\* C28: the wrapper's waits are exactly rate_limit_delay * 2^k after each
\* failed attempt k that is not the last one; a call that failed on every
\* attempt has slept max_retries - 1 such waits, each longer than the one
\* before, and its last sleep is not a wait of the wrapper.
C28_ExponentialBackoff ==
    /\ WaitSecs = ExponentialWaits(rt_hist, 1)
    /\ (rt_pc = "raised" /\ AllRaised(rt_hist)) =>
          /\ Len(WaitSecs) = rt_max - 1
          /\ \A k \in 1 .. Len(WaitSecs) - 1 : WaitSecs[k] < WaitSecs[k + 1]
          /\ sleeps[Len(sleeps)].why # "backoff"

C28_Witness ==
    /\ rt_pc = "raised" /\ rt_max = 3 /\ AllRaised(rt_hist)
    /\ WaitSecs = << rate_limit_delay, 2 * rate_limit_delay >>

\* A history with every exception replaced by a GitHubAPIError.
Typed(h) ==
    [i \in 1 .. Len(h) |-> IF h[i].tag = "raise" THEN ApiError("api_error", 500) ELSE h[i]]

\* C29 (as claimed): a finished call whose failures were all exceptions other
\* than GitHubAPIError made the invocations, slept the waits and ended the way
\* the call does when each of them is a GitHubAPIError instead.
C29_UntypedRetriedAlike ==
    (rt_pc \in {"returned", "raised"}
        /\ \A i \in 1 .. Len(rt_hist) : rt_hist[i].tag = "raise" => rt_hist[i] = UntypedError)
    => LET typed == RetryRun(Typed(rt_hist), 0, rt_max, << >>)
       IN /\ typed.calls = Len(rt_hist)
          /\ [k \in 1 .. Len(typed.waits) |-> typed.waits[k].secs] = WaitSecs
          /\ typed.final = (IF rt_pc = "raised" THEN "raise"
                            ELSE IF rt_result = None THEN "none" ELSE "value")

\* ------------------------------------------- claims: early termination
\* A merged PR whose merge date is before the start date of the call.
Old(pr) == pr.merged_at # 0 /\ (pr.merged_at \div 2) < pf_start

InRange(pr) ==
    pr.merged_at # 0 /\ pf_start <= (pr.merged_at \div 2) /\ (pr.merged_at \div 2) <= pf_end

HasOld(prs) == \E i \in 1 .. Len(prs) : Old(prs[i])

\* The PRs of a page that come before its first old PR.
BeforeFirstOld(prs) ==
    SubSeq(prs, 1, Cardinality({ i \in 1 .. Len(prs) : \A j \in 1 .. i : ~Old(prs[j]) }))

\* The in-range PRs of the pages fetched so far, each page cut at its first
\* old PR.
RECURSIVE CollectedUpTo(_)
CollectedUpTo(k) ==
    IF k = 0 THEN << >>
    ELSE CollectedUpTo(k - 1) \o SelectSeq(BeforeFirstOld(PageOf(pf_pages[k])), InRange)

\* C30: a page that was fetched and holds an old PR is the last page the
\* call requests, and the call then returns the in-range PRs of the earlier
\* pages and of that page up to the old PR; a full page without an old PR,
\* below the page cap, does not end the call.
C30_EarlyTermination ==
    \A k \in 1 .. Len(pf_pages) :
        Succeeds(pf_resps[k]) =>
            /\ HasOld(PageOf(pf_pages[k])) =>
                  /\ k = Len(pf_pages)
                  /\ pf_pc = "returned"
                  /\ pf_value.prs = CollectedUpTo(k)
            /\ (~HasOld(PageOf(pf_pages[k])) /\ Len(PageOf(pf_pages[k])) = PerPage
                    /\ pf_pages[k] < pf_max_pages) =>
                  (k < Len(pf_pages) \/ pf_pc = "page")

C30_Witness ==
    /\ pf_pc = "returned" /\ pf_pages = << 1 >> /\ pf_max_pages >= 2
    /\ Succeeds(pf_resps[1])
    /\ Len(up_prs[pf_branch]) > PerPage
    /\ Old(PageOf(1)[2]) /\ InRange(PageOf(1)[1])
    /\ pf_value.prs = << PageOf(1)[1] >>
    /\ InRange(PageOf(2)[1])

\* ------------------------------------------------- claims: pagination
\* C31: a call makes at most max_pages page requests, for the pages 1, 2, ...
\* in this order and each once; a page is requested only after a full page
\* came back for the one before it; and once max_pages requests are made the
\* loop is over.
C31_PageCap ==
    /\ Len(pf_pages) <= pf_max_pages
    /\ \A k \in 1 .. Len(pf_pages) : pf_pages[k] = k
    /\ \A k \in 1 .. Len(pf_pages) - 1 :
          /\ Succeeds(pf_resps[k])
          /\ Len(PageOf(k)) = PerPage
    /\ pf_pc = "page" => Len(pf_pages) < pf_max_pages

C31_Witness ==
    /\ pf_pc = "returned" /\ pf_pages = << 1 >> /\ pf_max_pages = 1
    /\ Succeeds(pf_resps[1])
    /\ Len(PageOf(1)) = PerPage /\ PageOf(2) # << >>
    /\ \A i \in 1 .. PerPage : PageOf(1)[i].merged_at = 0 \/ (PageOf(1)[i].merged_at \div 2) >= pf_start

\* --------------------------------------------------- claims: request pace
RateSleeps == SelectSeq(sleeps, LAMBDA sl : sl.why = "rate")

RateLimited == { k \in 1 .. Len(hp_log) : hp_log[k].rate }

\* C32: every request of a rate-limited call is preceded by a sleep of
\* rate_limit_delay of its own, so the requests sent so far by rate-limited
\* calls are matched by as many sleeps, any two of them are at least
\* rate_limit_delay apart, and a call without rate limiting sends its request
\* at the instant of the request before it.
C32_MinimumDelay ==
    /\ Len(RateSleeps) = Cardinality(RateLimited)
    /\ \A k \in 1 .. Len(RateSleeps) : RateSleeps[k].secs = rate_limit_delay
    /\ \A i, j \in RateLimited : i < j => hp_log[j].at - hp_log[i].at >= rate_limit_delay
    /\ \A k \in 2 .. Len(hp_log) : ~hp_log[k].rate => hp_log[k].at = hp_log[k - 1].at

C32_Witness ==
    /\ Len(hp_log) = 3 /\ hp_pc = "done"
    /\ hp_log[1].rate /\ ~hp_log[2].rate /\ hp_log[3].rate
    /\ Len(RateSleeps) = 2
    /\ hp_log[3].at - hp_log[1].at = rate_limit_delay

\* ------------------------------------------- claims: repository description
\* The call fetched its pages itself, every request was answered with a list,
\* and page 1 had a first item.
FetchedFirstItem ==
    /\ pf_pc \in {"returned", "raised"}
    /\ Len(pf_resps) >= 1
    /\ \A k \in 1 .. Len(pf_resps) : Succeeds(pf_resps[k])
    /\ PageOf(1) # << >>

\* C33 (as claimed): when the first item of the first page has no head, no
\* head.repo or no description, or has null in one of these places, a call
\* whose requests all succeed returns, and returns the empty description.
C33_BestEffortDescription ==
    (FetchedFirstItem /\ up_meta # "full")
    => pf_result = Returned /\ pf_value.desc = ""

\* ------------------------------------------- claims: collection of outcomes
Collected == { i \in 1 .. Len(ag_st) : ag_st[i] = "collected" }

\* C34: the counter always equals the number of tasks whose outcome the loop
\* has taken, a taken outcome is never taken again, and when the call has
\* returned every submitted task is finished and taken: the counter equals
\* the number of PRs and no request is in flight.
C34_CollectedOnce ==
    /\ completed = Cardinality(Collected)
    /\ ag_pc = "returned" =>
          /\ completed = Len(ag_prs)
          /\ InFlight = { }
          /\ \A i \in 1 .. Len(ag_st) : ag_st[i] = "collected"

C34_Witness ==
    /\ ag_pc = "returned"
    /\ Len(ag_prs) >= 2 /\ ag_workers >= 2
    /\ completed = Len(ag_prs)
    /\ \E i, j \in 1 .. Len(ag_out) : ag_out[i].tag = "raise" /\ ag_out[j].tag = "value"

\* ------------------------------------------- claims: cache writes
\* The keys whose entry a step has written.
Written == { k \in DOMAIN cache' : k \notin DOMAIN cache \/ cache'[k] # cache[k] }

\* The step ends a PR fetch with its result, every page having been answered.
PRFetchSucceeds ==
    /\ pf_pc = "page" /\ pf_pc' = "returned" /\ pf_result' = Returned
    /\ \A k \in 1 .. Len(pf_resps') : Succeeds(pf_resps'[k])

\* The step ends the commit request of task i with a commit list.
CommitFetchSucceeds(i) ==
    /\ ag_st[i] = "flight" /\ ag_st'[i] = "done"
    /\ ag_out'[i].tag = "value"

\* C35: a step that ends a PR fetch or a commit request with an error writes
\* no cache entry; an entry is only written by the step that ends a fetch
\* successfully, under the key of that fetch and with its result. After a
\* PR fetch that raised, the cache has no fresh entry for its key, so that
\* the same call does not return from the cache.
C35_OnlySuccessWritesCache ==
    [][
        /\ \A k \in Written :
              \/ /\ PRFetchSucceeds
                 /\ k = get_cache_key(pf_start, pf_end, pf_branch)
                 /\ cache'[k].data = pf_value'
              \/ \E i \in 1 .. Len(ag_st) :
                    /\ CommitFetchSucceeds(i)
                    /\ k = CommitCacheKey(pr_numbers[i])
                    /\ cache'[k].data = ag_out'[i].val
        /\ (pf_pc = "page" /\ pf_pc' = "raised") => cache' = cache
        /\ \A i \in 1 .. Len(ag_st) :
              (ag_st[i] = "flight" /\ ag_st'[i] = "done" /\ ag_out'[i].tag # "value")
              => cache' = cache
        /\ pf_pc' = "raised" => ~CacheFresh(get_cache_key(pf_start, pf_end, pf_branch))'
    ]_vars

\* A commit request failed and left no entry, beside the entries the PR fetch
\* and another commit request wrote when they succeeded.
C35_Witness ==
    /\ \E i \in 1 .. Len(ag_out) :
          /\ ag_out[i].tag \in {"raise", "none"} /\ ag_st[i] \in {"done", "collected"}
          /\ CommitCacheKey(pr_numbers[i]) \notin DOMAIN cache
    /\ \E j \in 1 .. Len(ag_out) :
          /\ ag_out[j].tag = "value" /\ CommitCacheKey(pr_numbers[j]) \in DOMAIN cache
    /\ get_cache_key(pf_start, pf_end, pf_branch) \in DOMAIN cache

\* ------------------------------------------- claims: swallowed errors
\* C36: a finished call of the wrapper in which every invocation of
\* fetch_commits_from_pr returned None made exactly max_retries invocations,
\* slept no wait of its own between them (the only sleeps are the one each
\* request makes before it is sent), and returned None.
C36_SwallowedErrors ==
    (rt_pc \in {"returned", "raised"} /\ \A i \in 1 .. Len(rt_hist) : rt_hist[i].tag = "none")
    => /\ Len(rt_hist) = rt_max
       /\ WaitSecs = << >>
       /\ Len(sleeps) = rt_max
       /\ rt_pc = "returned" /\ rt_result = None

C36_Witness ==
    /\ rt_pc = "returned" /\ rt_max = MaxRetries /\ Len(rt_hist) = MaxRetries
    /\ \A i \in 1 .. Len(rt_hist) : rt_hist[i] = Swallowed

\* ------------------------------------------- claims: failed summaries
\* C37 (as claimed): a call in which the service failed writes nothing to
\* the response cache, and every later call with the same key sends a
\* request to the service again.
C37_FailureNeverCached ==
    \A i \in 1 .. Len(sm_log) :
        sm_log[i].failed =>
            /\ sm_log[i].written = "none"
            /\ \A j \in i + 1 .. Len(sm_log) : sm_log[j].calls >= 1

\* ------------------------------------------- claims: completeness
\* C38 (as claimed): when a call that fetched its pages has returned, every
\* PR of a fetched page that is merged with a merge date between the start
\* and the end date is in the returned set, whatever precedes it on the page.
C38_CompleteWithinPages ==
    (pf_pc = "returned" /\ Len(pf_pages) >= 1)
    => \A k \in 1 .. Len(pf_pages) :
          \A i \in 1 .. Len(PageOf(pf_pages[k])) :
              InRange(PageOf(pf_pages[k])[i])
              => \E n \in 1 .. Len(pf_value.prs) : pf_value.prs[n] = PageOf(pf_pages[k])[i]

\* ------------------------------------------- claims: scheduling
\* The records of the outcomes of the tasks, taken in the order in which the
\* tasks were submitted.
RECURSIVE InSubmitOrder(_)
InSubmitOrder(n) ==
    IF n = 0 THEN << >>
    ELSE InSubmitOrder(n - 1)
            \o (IF ag_out[n].tag = "value"
                THEN transform_commits_to_records(
                         sanitize_api_response(UpstreamCommits(ag_out[n].val)),
                         FirstRow(pr_numbers[n]))
                ELSE << >>)

\* C39: for distinct PR numbers, the commit set returned and the text
\* extracted from it are those of the tasks' outcomes taken in submission
\* order, in whatever order the tasks were started, answered and collected:
\* two runs with the same PR set and the same outcomes agree on both.
C39_ScheduleIndependent ==
    (ag_pc = "returned" /\ NoRepeatedPR /\ Len(ag_prs) > 0)
    => /\ Range(all_commits) = Range(InSubmitOrder(Len(ag_prs)))
       /\ Len(all_commits) = Len(InSubmitOrder(Len(ag_prs)))
       /\ extract_messages_from_commits(all_commits)
             = extract_messages_from_commits(InSubmitOrder(Len(ag_prs)))

\* Two PRs with commits were collected in the order opposite to submission.
C39_Witness ==
    /\ ag_pc = "returned" /\ NoRepeatedPR /\ Len(ag_prs) = 2
    /\ all_commits # << >>
    /\ all_commits[1].pr = ag_prs[2].number
    /\ all_commits[Len(all_commits)].pr = ag_prs[1].number
    /\ all_commits # InSubmitOrder(2)
    /\ extract_messages_from_commits(all_commits) # EmptyText

====
